---------------------------- MODULE Spec2Model ----------------------------
(***************************************************************************)
(* Model of the Waterline data methods find, findOrCreate, count and       *)
(* replaceCollection (src/lib/waterline/methods/find.ts,                   *)
(* src/lib/waterline/methods/replace-collection.ts, src/unnamed/part_001). *)
(*                                                                         *)
(* A method call builds a query and hands its body to parley: with an      *)
(* explicit callback the body runs at once, without one a Deferred is      *)
(* returned and the body runs when the Deferred is executed.  The body     *)
(* runs synchronously up to the first child operation or adapter call; the *)
(* callbacks of those calls are the later steps.  The utilities that are   *)
(* required by the methods but are not among the source files              *)
(* (forgeStageTwoQuery, forgeStageThreeQuery, helpFind, processAllRecords, *)
(* parley, async.each and the child model methods) are modelled by their   *)
(* documented contract.                                                    *)
(***************************************************************************)
EXTENDS Integers, Sequences, FiniteSets, Bags, TLC

(***************************************************************************)
(* Bounds of the model.                                                    *)
(***************************************************************************)
\* Number of parent record ids (ids of the records whose collection is replaced).
NumParents == 2
\* Number of child record ids (ids of the associated records).
NumChildren == 1

\* Most (target id, associated id) pairs in one call of replaceCollection.
MaxPairs == 2

ParentIds == 1..NumParents
ChildIds == 1..NumChildren

\* The callers, and the caller of the single-caller specification.
Procs == {1, 2}
Caller == CHOOSE p \in Procs : \A r \in Procs : p <= r

(***************************************************************************)
(* Values.                                                                 *)
(***************************************************************************)
\* `null`, as a foreign key value (record ids are positive).
Null == 0

\* A JavaScript value passed as an argument or held in a query key.  `tag`
\* tells what it is; the other fields hold its content and are empty where
\* they do not apply:
\*   "undefined"   no value
\*   "function"    a callback
\*   "ids"         a list of primary key values (`ids`, without repetition)
\*   "malformed"   a value that is not what the key expects (e.g. `{}` as an id)
\*   "dictionary"  a `meta` dictionary (`dict`: key -> flag)
\*   "criteria"    a criteria dictionary (`where`: what the filter is,
\*                 `clauses`: the other clauses present)
\*   "record"      a new record (`attrs`: attribute -> value)
\*   "string"      a string (`where`: its text)
NoDict == [k \in {} |-> TRUE]
NoAttrs == [k \in {} |-> 0]
Value(tag, ids, dict, where, clauses, attrs) ==
  [tag |-> tag, ids |-> ids, dict |-> dict, where |-> where,
   clauses |-> clauses, attrs |-> attrs]
Undefined == Value("undefined", {}, NoDict, "", {}, NoAttrs)
Function == Value("function", {}, NoDict, "", {}, NoAttrs)
Malformed == Value("malformed", {}, NoDict, "", {}, NoAttrs)
IdList(s) == Value("ids", s, NoDict, "", {}, NoAttrs)
Dictionary(d) == Value("dictionary", {}, d, "", {}, NoAttrs)
Criteria(w, c) == Value("criteria", {}, NoDict, w, c, NoAttrs)
NewRecord(r) == Value("record", {}, NoDict, "", {}, r)
String(str) == Value("string", {}, NoDict, str, {}, NoAttrs)

IsUndefined(v) == v.tag = "undefined"
IsFunction(v) == v.tag = "function"

\* An error value.  `code` is its `code` property ("" when it has none),
\* `details` tells where the stage-2 details string is ("property",
\* "message" or "none"), and `origin` is the index in `calls` of the call
\* that failed (0 when the error was built by the method itself).
Error(type, code, name, message, details, origin) ==
  [type |-> type, code |-> code, name |-> name, message |-> message,
   details |-> details, origin |-> origin]
\* No error (the `undefined` / `null` first argument of a callback).
NoError == Error("none", "", "", "", "none", 0)

(***************************************************************************)
(* The ontology: the model descriptors an ORM instance holds               *)
(* (`orm.collections`).  They are built once, by waterline-schema, and are *)
(* read-only afterwards.  Three ontologies are modelled, one per shape of  *)
(* the association `user.pets`: a generated junction table, a through      *)
(* table, and a plain foreign key (`via`) on the child.                    *)
(***************************************************************************)
Ontologies == {"junction", "through", "via"}

\* A model descriptor.  `own` lists the properties that `_.has` finds on the
\* model's prototype.
Model(identity, own, junctionTable, throughTable, schema, adapter) ==
  [identity |-> identity, primaryKey |-> "id", own |-> own,
   junctionTable |-> junctionTable, throughTable |-> throughTable,
   schema |-> schema, adapter |-> adapter]

NoThroughTable == [k \in {} |-> ""]
AllAdapterMethods == {"find", "create", "createEach", "update", "destroy", "count"}
PlainAttr == [type |-> "number"]

UserModel(petsDef) ==
  Model("user", {}, FALSE, NoThroughTable,
        [id |-> PlainAttr, pets |-> petsDef], AllAdapterMethods)

\* A model whose adapter has no `count` method.
ArchiveModel ==
  Model("archive", {}, FALSE, NoThroughTable, [id |-> PlainAttr],
        AllAdapterMethods \ {"count"})

OntologyCollections(o) ==
  CASE o = "junction" ->
         [user |-> UserModel([collection |-> "pet_owners__user_pets",
                              referenceIdentity |-> "pet_owners__user_pets",
                              on |-> "user_pets"]),
          pet |-> Model("pet", {}, FALSE, NoThroughTable,
                        [id |-> PlainAttr,
                         owners |-> [collection |-> "pet_owners__user_pets",
                                     referenceIdentity |-> "pet_owners__user_pets",
                                     on |-> "pet_owners"]],
                        AllAdapterMethods),
          pet_owners__user_pets |->
            Model("pet_owners__user_pets", {"junctionTable"}, TRUE, NoThroughTable,
                  [id |-> PlainAttr,
                   pet_owners |-> [columnName |-> "pet_owners", references |-> "pet"],
                   user_pets |-> [columnName |-> "user_pets", references |-> "user"]],
                  AllAdapterMethods),
          archive |-> ArchiveModel]
    [] o = "through" ->
         [user |-> UserModel([collection |-> "pet",
                              referenceIdentity |-> "userpet",
                              on |-> "user"]),
          pet |-> Model("pet", {}, FALSE, NoThroughTable,
                        [id |-> PlainAttr,
                         owners |-> [collection |-> "user",
                                     referenceIdentity |-> "userpet",
                                     on |-> "pet"]],
                        AllAdapterMethods),
          userpet |->
            Model("userpet", {"throughTable"}, FALSE,
                  ("user.pets" :> "pet") @@ ("pet.owners" :> "user"),
                  [id |-> PlainAttr,
                   user |-> [columnName |-> "user", references |-> "user"],
                   pet |-> [columnName |-> "pet", references |-> "pet"]],
                  AllAdapterMethods),
          archive |-> ArchiveModel]
    [] o = "via" ->
         [user |-> UserModel([collection |-> "pet",
                              referenceIdentity |-> "pet",
                              via |-> "owner"]),
          pet |-> Model("pet", {}, FALSE, NoThroughTable,
                        [id |-> PlainAttr, name |-> [type |-> "string"],
                         owner |-> [model |-> "user", columnName |-> "owner",
                                    references |-> "user"]],
                        AllAdapterMethods),
          archive |-> ArchiveModel]

\* ORMs in which an identity was left un-normalized (a defect of whatever
\* built them), one per assertion of replaceCollection: the identity under
\* which the parent model is registered, the `collection` of the
\* association, its `referenceIdentity`, and the identity of the child
\* model.  The association is the plain foreign key of "via".
Unnormalized == {"upperUsing", "upperCollection", "upperReference", "upperChild"}

OwnedPet(identity) ==
  Model(identity, {}, FALSE, NoThroughTable,
        [id |-> PlainAttr, name |-> [type |-> "string"],
         owner |-> [model |-> "user", columnName |-> "owner", references |-> "user"]],
        AllAdapterMethods)

UnnormalizedCollections(o) ==
  CASE o = "upperUsing" ->
         [User |-> Model("User", {}, FALSE, NoThroughTable,
                         [id |-> PlainAttr,
                          pets |-> [collection |-> "pet", referenceIdentity |-> "pet",
                                    via |-> "owner"]],
                         AllAdapterMethods),
          pet |-> OwnedPet("pet"), archive |-> ArchiveModel]
    [] o = "upperCollection" ->
         [user |-> UserModel([collection |-> "Pet", referenceIdentity |-> "pet",
                              via |-> "owner"]),
          pet |-> OwnedPet("pet"), Pet |-> OwnedPet("pet"), archive |-> ArchiveModel]
    [] o = "upperReference" ->
         [user |-> UserModel([collection |-> "pet", referenceIdentity |-> "Pet",
                              via |-> "owner"]),
          pet |-> OwnedPet("pet"), Pet |-> OwnedPet("pet"), archive |-> ArchiveModel]
    [] o = "upperChild" ->
         [user |-> UserModel([collection |-> "pet", referenceIdentity |-> "pet",
                              via |-> "owner"]),
          pet |-> OwnedPet("Pet"), archive |-> ArchiveModel]

\* orm.collections, per ontology.
CollectionsTable ==
  [o \in Ontologies \cup Unnormalized |->
     IF o \in Ontologies THEN OntologyCollections(o) ELSE UnnormalizedCollections(o)]

\* `_.has(dictionary, key)`.
Has(dict, key) == key \in DOMAIN dict


(***************************************************************************)
(* State.                                                                  *)
(***************************************************************************)
VARIABLES
  orm,        \* the ontology the ORM was initialised with (read-only)
  collections,
              \* orm.collections: the model descriptors the ORM built at
              \* initialisation (read-only)
  joinTable,  \* the rows of the junction / through table, a bag of rows
  petTable,   \* the records of the child model `pet`: id -> record
  userTable,  \* the ids of the records of the parent model `user`
  pc,         \* per caller: where its operation is
  callArgs,   \* per caller: the arguments of its call
  query,      \* per caller: the query of its operation
  cb,         \* per caller: `explicitCbMaybe`
  calls,      \* per caller: the utilities, child operations and adapter
              \* methods the operation has invoked, in order
  returned,   \* per caller: for every call that has returned or called
              \* back, its index in `calls`, whether it failed and what it
              \* called back with
  handled,    \* per caller: the invocations of the result handler
  eachState,  \* per caller: the state of async.each (completed, called)
  repeat,     \* per caller: the operation repeats the one just before it
  snapshot,   \* per caller: the store when the body of the operation began
  DEFERRED_METHODS
              \* per method: the module-level dictionary of query modifier
              \* methods, with the properties the calls have set on it

vars == <<orm, collections, joinTable, petTable, userTable, pc, callArgs, query, cb, calls, returned, handled,
          eachState, repeat, snapshot, DEFERRED_METHODS>>

\* orm.collections, as the ORM `o` of this process built it.
Collections(o) == collections

\* A call made by an operation: a utility (stage forger, record processor),
\* a child operation on `model`, or an adapter method.
CallRecord(op, model, whereAttr, whereIds, values, records, meta) ==
  [op |-> op, model |-> model, whereAttr |-> whereAttr, whereIds |-> whereIds,
   values |-> values, records |-> records, meta |-> meta]
Utility(op) == CallRecord(op, "", "", {}, NoAttrs, EmptyBag, Undefined)

\* An invocation of the result handler: done(err, result, extra).
Handled(err, result, extra) == [err |-> err, result |-> result, extra |-> extra]

\* The result values a handler can receive.
NoResult == [tag |-> "undefined", n |-> 0, rows |-> {}]
Record(id) == [tag |-> "record", n |-> id, rows |-> {}]
Count(n) == [tag |-> "number", n |-> n, rows |-> {}]
Rows(r) == [tag |-> "records", n |-> 0, rows |-> r]
NoFlag == "undefined"


\* A call that has returned (a utility) or called back (a child operation,
\* an adapter method): `err` tells whether it threw / called back with an
\* error, `code` is the code of a thrown stage-2 error, `result` is what a
\* child operation or adapter method called back with.
Returned(idx, err, code) == [idx |-> idx, err |-> err, code |-> code, result |-> NoResult]
CalledBack(idx, err, result) == [idx |-> idx, err |-> err, code |-> "", result |-> result]

\* What a synchronous stretch of an operation's body leaves behind: the
\* query as mutated, the calls made, those of them that returned within
\* the stretch, the handler invocations, and where the operation is next.
Outcome(q, made, back, hs, next) ==
  [query |-> q, calls |-> made, returned |-> back, handled |-> hs, pc |-> next]

(***************************************************************************)
(* Stage 2 (forgeStageTwoQuery), from its contract: the code of the error  *)
(* it throws for a query, or "ok".  The keys are checked in the order      *)
(* meta, criteria, populates, newRecord, targetRecordIds,                  *)
(* collectionAttrName, associatedIds.                                      *)
(***************************************************************************)
RecognizedMetaKeys == {"fetch", "skipAllLifecycleCallbacks", "cascade", "leasedConnection"}

MetaIsValid(m) ==
  \/ IsUndefined(m)
  \/ m.tag = "dictionary" /\ DOMAIN m.dict \subseteq RecognizedMetaKeys

ReadMethods == {"find", "count", "findOrCreate"}

forgeStageTwoQuery(q, o) ==
  IF ~MetaIsValid(q.meta) THEN "E_INVALID_META"
  ELSE IF q.method \in ReadMethods THEN
    IF ~(IsUndefined(q.criteria)
         \/ (q.criteria.tag = "criteria" /\ q.criteria.where # "misspelled"))
      THEN "E_INVALID_CRITERIA"
    ELSE IF q.criteria.tag = "criteria" /\ q.criteria.where = "noop"
      THEN "E_NOOP"
    ELSE IF q.method = "find"
            /\ ~(IsUndefined(q.populates) \/ q.populates.tag = "dictionary")
      THEN "E_INVALID_POPULATES"
    ELSE IF q.method = "findOrCreate" /\ q.newRecord.tag # "record"
      THEN "E_INVALID_NEW_RECORDS"
    ELSE "ok"
  ELSE
    IF q.targetRecordIds.tag # "ids" THEN "E_INVALID_TARGET_RECORD_IDS"
    ELSE IF q.targetRecordIds.ids = {} THEN "E_NOOP"
    ELSE IF ~(/\ Has(Collections(o)[q.using].schema, q.collectionAttrName)
              /\ Has(Collections(o)[q.using].schema[q.collectionAttrName], "collection"))
      THEN "E_INVALID_COLLECTION_ATTR_NAME"
    ELSE IF q.associatedIds.tag # "ids" THEN "E_INVALID_ASSOCIATED_IDS"
    ELSE "ok"

\* The error forgeStageTwoQuery throws: it has a `code` and a `details`.
StageTwoError(code) == Error("stage2", code, "UsageError", code, "property", 1)

\* flaverr({ name: 'UsageError' }, new Error(text + e.details)): a new error
\* whose message quotes the details of the stage-2 error.
UsageError(text) == Error("usage", "", "UsageError", text, "message", 0)


(***************************************************************************)
(* replaceCollection: resolving the association                            *)
(* (replace-collection.ts, lines 271-383).                                 *)
(***************************************************************************)
\* Reading a property that may be missing (`undefined`, which as a
\* dictionary key is the string "undefined").
Get(dict, key) == IF key \in DOMAIN dict THEN dict[key] ELSE "undefined"

\* String.prototype.toLowerCase on the identities that occur.
ToLowerCase(str) ==
  CASE str = "User" -> "user"
    [] str = "Pet" -> "pet"
    [] OTHER -> str

schemaDef(o, q) == Collections(o)[q.using].schema[q.collectionAttrName]

\* The three assertions that the identities are normalized.
IdentitiesAreNormalized(o, q) ==
  /\ ToLowerCase(q.using) = q.using
  /\ ToLowerCase(schemaDef(o, q).collection) = schemaDef(o, q).collection
  /\ ToLowerCase(schemaDef(o, q).referenceIdentity) = schemaDef(o, q).referenceIdentity
  /\ ToLowerCase(Collections(o)[schemaDef(o, q).collection].identity)
       = Collections(o)[schemaDef(o, q).collection].identity

\* "Check if the schema references something other than the WLChild".
ReferencesOtherModel(o, q) ==
  schemaDef(o, q).referenceIdentity # Collections(o)[schemaDef(o, q).collection].identity

\* WLChild, after the reassignment of line 293.
WLChild(o, q) ==
  IF ReferencesOtherModel(o, q)
    THEN Collections(o)[schemaDef(o, q).referenceIdentity]
    ELSE Collections(o)[schemaDef(o, q).collection]

IsJunctionTable(m) == "junctionTable" \in m.own /\ m.junctionTable
IsThroughTable(m) == "throughTable" \in m.own

\* A variant of manyToMany that looks at the junctionTable flag only.
manyToManyByJunctionOnly(o, q) == IsJunctionTable(WLChild(o, q))

manyToMany(o, q) ==
  \/ ReferencesOtherModel(o, q)
  \/ IsJunctionTable(WLChild(o, q))
  \/ IsThroughTable(WLChild(o, q)) /\ DOMAIN WLChild(o, q).throughTable # {}

\* The value a variable has after `_.each` assigned it for every member
\* of `found` (any one of them when there are several; `undefined` when
\* there is none).
Assigned(found) == IF found = {} THEN "undefined" ELSE CHOOSE k \in found : TRUE

ForeignKeys(m) == {key \in DOMAIN m.schema : Has(m.schema[key], "references")}

ThroughKey(q) == q.using \o "." \o q.collectionAttrName

parentReference(o, q) ==
  LET child == WLChild(o, q) IN
  IF IsJunctionTable(child)
    THEN Assigned({key \in ForeignKeys(child) :
                     /\ Has(child.schema[key], "columnName")
                     /\ child.schema[key].columnName = Get(schemaDef(o, q), "on")})
  ELSE IF IsThroughTable(child)
    THEN Assigned({child.throughTable[key] :
                     key \in DOMAIN child.throughTable \ {ThroughKey(q)}})
  ELSE "undefined"

\* A variant of childReference that, in a junction table, takes the
\* attribute whose columnName is the `on` of the association.
childReferenceByOn(o, q) ==
  LET child == WLChild(o, q) IN
  IF IsJunctionTable(child)
    THEN Assigned({key \in ForeignKeys(child) :
                     /\ Has(child.schema[key], "columnName")
                     /\ child.schema[key].columnName = Get(schemaDef(o, q), "on")})
  ELSE IF IsThroughTable(child)
    THEN Get(child.throughTable, ThroughKey(q))
  ELSE "undefined"

childReference(o, q) ==
  LET child == WLChild(o, q) IN
  IF IsJunctionTable(child)
    THEN Assigned({key \in ForeignKeys(child) :
                     /\ Has(child.schema[key], "columnName")
                     /\ child.schema[key].columnName # Get(schemaDef(o, q), "on")})
  ELSE IF IsThroughTable(child)
    THEN Get(child.throughTable, ThroughKey(q))
  ELSE "undefined"

\* A variant of modifiedMeta in which the properties of the caller's meta
\* come last: _.extend({}, { skipAllLifecycleCallbacks: true }, query.meta).
modifiedMetaCallerLast(q) ==
  (IF q.meta.tag = "dictionary" THEN q.meta.dict ELSE NoDict)
    @@ ("skipAllLifecycleCallbacks" :> TRUE)

\* _.extend({}, query.meta || {}, { skipAllLifecycleCallbacks: true })
modifiedMeta(q) ==
  ("skipAllLifecycleCallbacks" :> TRUE)
    @@ (IF q.meta.tag = "dictionary" THEN q.meta.dict ELSE NoDict)

(***************************************************************************)
(* replaceCollection: the queries of the many-to-many path                 *)
(* (lines 392-418) and of the one-to-many path (lines 466-504).            *)
(***************************************************************************)
\* modifiedMeta after `modifiedMeta.fetch = false`.
metaWithoutFetch(q) == ("fetch" :> FALSE) @@ modifiedMeta(q)

JoinRow(parentRef, childRef, targetId, associatedId) ==
  (parentRef :> targetId) @@ (childRef :> associatedId)


\* A variant of the destroy whose criteria names no target id.
destroyCallOfNothing(o, q) ==
  CallRecord("destroy", WLChild(o, q).identity, parentReference(o, q),
             {}, NoAttrs, EmptyBag, Dictionary(metaWithoutFetch(q)))

\* A variant of the destroy whose criteria names every parent id.
destroyCallOfEveryParent(o, q) ==
  CallRecord("destroy", WLChild(o, q).identity, parentReference(o, q),
             ParentIds, NoAttrs, EmptyBag, Dictionary(metaWithoutFetch(q)))

destroyCall(o, q) ==
  CallRecord("destroy", WLChild(o, q).identity, parentReference(o, q),
             q.targetRecordIds.ids, NoAttrs, EmptyBag, Dictionary(metaWithoutFetch(q)))


\* A variant of insertRecords that puts each id under the other reference.
insertRecordsTransposed(o, q) ==
  LET pairs == q.targetRecordIds.ids \X q.associatedIds.ids
      row(pr) == JoinRow(parentReference(o, q), childReference(o, q), pr[2], pr[1])
      rows == {row(pr) : pr \in pairs}
  IN [r \in rows |-> Cardinality({pr \in pairs : row(pr) = r})]

\* insertRecords: one record per (targetId, associatedId).
insertRecords(o, q) ==
  LET pairs == q.targetRecordIds.ids \X q.associatedIds.ids
      row(pr) == JoinRow(parentReference(o, q), childReference(o, q), pr[1], pr[2])
      rows == {row(pr) : pr \in pairs}
  IN [r \in rows |-> Cardinality({pr \in pairs : row(pr) = r})]

createEachCall(o, q) ==
  CallRecord("createEach", WLChild(o, q).identity, "", {}, NoAttrs,
             insertRecords(o, q), Dictionary(metaWithoutFetch(q)))


\* A variant of the null-out update whose criteria names no target id.
nullOutCallOfNothing(o, q) ==
  CallRecord("update", WLChild(o, q).identity, Get(schemaDef(o, q), "via"),
             {}, (Get(schemaDef(o, q), "via") :> Null),
             EmptyBag, Dictionary(modifiedMeta(q)))

\* A variant of the null-out update whose criteria names every parent id.
nullOutCallOfEveryParent(o, q) ==
  CallRecord("update", WLChild(o, q).identity, Get(schemaDef(o, q), "via"),
             ParentIds, (Get(schemaDef(o, q), "via") :> Null),
             EmptyBag, Dictionary(modifiedMeta(q)))

nullOutCall(o, q) ==
  CallRecord("update", WLChild(o, q).identity, Get(schemaDef(o, q), "via"),
             q.targetRecordIds.ids, (Get(schemaDef(o, q), "via") :> Null),
             EmptyBag, Dictionary(modifiedMeta(q)))

\* The members of a set of integers, in increasing order (the order of
\* the ids in a list).
RECURSIVE InOrder(_)
InOrder(set) ==
  IF set = {} THEN <<>>
  ELSE LET least == CHOOSE x \in set : \A y \in set : x <= y
       IN <<least>> \o InOrder(set \ {least})

pairUpdateCall(o, q, targetId, associatedId) ==
  CallRecord("update", WLChild(o, q).identity, WLChild(o, q).primaryKey,
             {associatedId}, (Get(schemaDef(o, q), "via") :> targetId),
             EmptyBag, Dictionary(modifiedMeta(q)))

\* updateQueries: for each target id, for each associated id, one update.
RECURSIVE updateQueriesFor(_, _, _, _)
updateQueriesFor(o, q, targets, associated) ==
  IF targets = <<>> THEN <<>>
  ELSE [i \in 1..Len(associated) |-> pairUpdateCall(o, q, Head(targets), associated[i])]
         \o updateQueriesFor(o, q, Tail(targets), associated)

updateQueries(o, q) ==
  updateQueriesFor(o, q, InOrder(q.targetRecordIds.ids), InOrder(q.associatedIds.ids))


(***************************************************************************)
(* The store behind the child model methods.  A child operation takes      *)
(* effect when it completes; one that fails leaves the store as it was.    *)
(* Every child operation is validated by its own stage 2, so one that      *)
(* names an attribute its model does not have fails.                       *)
(***************************************************************************)
Matches(record, call) ==
  Has(record, call.whereAttr) /\ record[call.whereAttr] \in call.whereIds

\* destroy(criteria): the rows that do not match stay.
AfterDestroy(table, call) ==
  [r \in {x \in DOMAIN table : ~Matches(x, call)} |-> table[r]]

\* createEach(records): every record becomes a row.
AfterCreateEach(table, call) == table (+) call.records

\* update(criteria, valuesToUpdate): the matching records take the values.
AfterUpdate(table, call) ==
  [id \in DOMAIN table |->
     IF Matches(table[id], call) THEN call.values @@ table[id] ELSE table[id]]

\* What update calls back with: the records it updated when the meta asks
\* for them (`fetch: true`), nothing otherwise.
Fetched(table, call) ==
  IF call.meta.tag = "dictionary" /\ Has(call.meta.dict, "fetch") /\ call.meta.dict["fetch"]
    THEN Rows({[id |-> c, stale |-> FALSE] : c \in {r \in DOMAIN table : Matches(table[r], call)}})
    ELSE NoResult

\* The records of the parent model that a criteria matches: none when
\* the criteria is a no-op, and otherwise every record there is (the
\* criteria of the callers is one that records of the model can match).
MatchingUsers(table, criteria) == IF criteria.where = "noop" THEN {} ELSE table

AttributesOf(o, model) == DOMAIN Collections(o)[model].schema

IsValidChildCall(o, call) ==
  /\ call.model \in DOMAIN Collections(o)
  /\ call.op \in {"destroy", "update"} => call.whereAttr \in AttributesOf(o, call.model)
  /\ DOMAIN call.values \subseteq AttributesOf(o, call.model)
  /\ \A r \in DOMAIN call.records : DOMAIN r \subseteq AttributesOf(o, call.model)

\* The calls of a caller that have not called back.
InFlight(p) == {i \in 1..Len(calls[p]) : \A r \in returned[p] : r.idx # i}

\* The error a child operation or adapter method calls back with.
CallError(i) == Error("call", "", "Error", "", "none", i)

(***************************************************************************)
(* replaceCollection: the body handed to parley (lines 189-538).           *)
(***************************************************************************)
stageTwoCall == <<Utility("forgeStageTwoQuery")>>
Threw(code) == {Returned(1, TRUE, code)}
Passed == {Returned(1, FALSE, "")}
Done(err, result, extra) == <<Handled(err, result, extra)>>

\* The self-calling function that talks to the databases, up to its
\* first child operation (lines 269-526).
\* A variant of the function that talks to the databases without the
\* assertions on the identities.
TalkToDatabasesUnasserted(q, o) ==
  IF manyToMany(o, q)
    THEN Outcome(q, stageTwoCall \o <<destroyCall(o, q)>>, Passed, <<>>, "destroy")
  ELSE Outcome(q, stageTwoCall \o <<nullOutCall(o, q)>>, Passed, <<>>, "nullOut")

TalkToDatabases(q, o) ==
  IF ~IdentitiesAreNormalized(o, q)
    THEN Outcome(q, stageTwoCall, Passed,
                 Done(Error("assertion", "ERR_ASSERTION", "AssertionError", "", "none", 0),
                      NoResult, NoFlag), "done")
  ELSE IF manyToMany(o, q)
    THEN Outcome(q, stageTwoCall \o <<destroyCall(o, q)>>, Passed, <<>>, "destroy")
  ELSE Outcome(q, stageTwoCall \o <<nullOutCall(o, q)>>, Passed, <<>>, "nullOut")


\* A variant of the body of replaceCollection that reports success when
\* the associated ids are invalid.
ReplaceCollectionBodySwallowing(q, o) ==
  LET code == forgeStageTwoQuery(q, o)
      fail(err) == Outcome(q, stageTwoCall, Threw(code), Done(err, NoResult, NoFlag), "done")
  IN CASE code = "ok" -> TalkToDatabases(q, o)
       [] code = "E_INVALID_TARGET_RECORD_IDS" -> fail(UsageError("target record ids"))
       [] code = "E_INVALID_COLLECTION_ATTR_NAME" -> fail(UsageError("collection attr name"))
       [] code = "E_INVALID_ASSOCIATED_IDS" -> fail(NoError)
       [] code = "E_NOOP" -> fail(NoError)
       [] code = "E_INVALID_META" -> fail(StageTwoError(code))
       [] OTHER -> fail(StageTwoError(code))

\* A variant of the body of replaceCollection that goes on to the
\* databases after E_NOOP.
ReplaceCollectionBodyIgnoringNoop(q, o) ==
  LET code == forgeStageTwoQuery(q, o)
      fail(err) == Outcome(q, stageTwoCall, Threw(code), Done(err, NoResult, NoFlag), "done")
  IN CASE code \in {"ok", "E_NOOP"} -> TalkToDatabases(q, o)
       [] code = "E_INVALID_TARGET_RECORD_IDS" -> fail(UsageError("target record ids"))
       [] code = "E_INVALID_COLLECTION_ATTR_NAME" -> fail(UsageError("collection attr name"))
       [] code = "E_INVALID_ASSOCIATED_IDS" -> fail(UsageError("associated ids"))
       [] code = "E_INVALID_META" -> fail(StageTwoError(code))
       [] OTHER -> fail(StageTwoError(code))

\* A variant of the body of replaceCollection that blames the target
\* record ids when the collection attr name is the one not recognized.
ReplaceCollectionBodyBlamingTargets(q, o) ==
  LET code == forgeStageTwoQuery(q, o)
      fail(err) == Outcome(q, stageTwoCall, Threw(code), Done(err, NoResult, NoFlag), "done")
  IN CASE code = "ok" -> TalkToDatabases(q, o)
       [] code = "E_INVALID_TARGET_RECORD_IDS" -> fail(UsageError("target record ids"))
       [] code = "E_INVALID_COLLECTION_ATTR_NAME" -> fail(UsageError("target record ids"))
       [] code = "E_INVALID_ASSOCIATED_IDS" -> fail(UsageError("associated ids"))
       [] code = "E_NOOP" -> fail(NoError)
       [] code = "E_INVALID_META" -> fail(StageTwoError(code))
       [] OTHER -> fail(StageTwoError(code))

ReplaceCollectionBody(q, o) ==
  LET code == forgeStageTwoQuery(q, o)
      fail(err) == Outcome(q, stageTwoCall, Threw(code), Done(err, NoResult, NoFlag), "done")
  IN CASE code = "ok" -> TalkToDatabases(q, o)
       [] code = "E_INVALID_TARGET_RECORD_IDS" -> fail(UsageError("target record ids"))
       [] code = "E_INVALID_COLLECTION_ATTR_NAME" -> fail(UsageError("collection attr name"))
       [] code = "E_INVALID_ASSOCIATED_IDS" -> fail(UsageError("associated ids"))
       [] code = "E_NOOP" -> fail(NoError)
       [] code = "E_INVALID_META" -> fail(StageTwoError(code))
       [] OTHER -> fail(StageTwoError(code))


(***************************************************************************)
(* find: the body handed to parley (find.ts, lines 162-299).               *)
(***************************************************************************)
\* Stage 2 leaves the criteria in canonical form: a dictionary with a
\* `where` clause and with `limit`, `skip` and `sort` attached.
NormalizedCriteria(c) ==
  Criteria(IF IsUndefined(c) THEN "valid" ELSE c.where,
           (IF IsUndefined(c) THEN {} ELSE c.clauses) \cup {"limit", "skip", "sort"})

helpFindCall(q) ==
  CallRecord("helpFind", q.using, q.criteria.where, {}, NoAttrs, EmptyBag, q.meta)


\* A variant of the body of find that goes on to helpFind after E_NOOP.
FindBodyQueryingAfterNoop(q, o) ==
  LET code == forgeStageTwoQuery(q, o)
      fail(err, result) == Outcome(q, stageTwoCall, Threw(code), Done(err, result, NoFlag), "done")
      q2 == [q EXCEPT !.criteria = NormalizedCriteria(q.criteria)]
  IN CASE code = "ok" ->
            Outcome(q2, stageTwoCall \o <<helpFindCall(q2)>>, Passed, <<>>, "helpFind")
       [] code = "E_INVALID_CRITERIA" -> fail(UsageError("Invalid criteria."), NoResult)
       [] code = "E_INVALID_POPULATES" -> fail(UsageError("Invalid populate(s)."), NoResult)
       [] code = "E_NOOP" ->
            Outcome(q2, stageTwoCall \o <<helpFindCall(q2)>>, Threw(code), <<>>, "helpFind")
       [] OTHER -> fail(StageTwoError(code), NoResult)

FindBody(q, o) ==
  LET code == forgeStageTwoQuery(q, o)
      fail(err, result) == Outcome(q, stageTwoCall, Threw(code), Done(err, result, NoFlag), "done")
      q2 == [q EXCEPT !.criteria = NormalizedCriteria(q.criteria)]
  IN CASE code = "ok" ->
            Outcome(q2, stageTwoCall \o <<helpFindCall(q2)>>, Passed, <<>>, "helpFind")
       [] code = "E_INVALID_CRITERIA" -> fail(UsageError("Invalid criteria."), NoResult)
       [] code = "E_INVALID_POPULATES" -> fail(UsageError("Invalid populate(s)."), NoResult)
       [] code = "E_NOOP" -> fail(NoError, Rows({}))
       [] OTHER -> fail(StageTwoError(code), NoResult)

(***************************************************************************)
(* count: the body handed to parley (part_001, lines 154-223).             *)
(***************************************************************************)
adapterCountCall(q) ==
  CallRecord("adapter.count", q.using, q.criteria.where, {}, NoAttrs, EmptyBag, q.meta)

\* A variant of the body of count that calls the adapter's count without
\* looking whether the adapter has one.
CountBodyUnchecked(q, o, stageThreeThrows) ==
  LET code == forgeStageTwoQuery(q, o)
      fail(err, result) == Outcome(q, stageTwoCall, Threw(code), Done(err, result, NoFlag), "done")
      q2 == [q EXCEPT !.criteria = NormalizedCriteria(q.criteria)]
      forged == stageTwoCall \o <<Utility("forgeStageThreeQuery")>>
  IN CASE code = "ok" ->
            IF stageThreeThrows
              THEN Outcome(q2, forged, Passed \cup {Returned(2, TRUE, "")},
                           Done(Error("stage3", "", "Error", "", "none", 2), NoResult, NoFlag),
                           "done")
            ELSE Outcome(q2, forged \o <<adapterCountCall(q2)>>,
                         Passed \cup {Returned(2, FALSE, "")}, <<>>, "adapter")
       [] code \in {"E_INVALID_CRITERIA", "E_INVALID_META"} -> fail(StageTwoError(code), NoResult)
       [] code = "E_NOOP" -> fail(NoError, Count(0))
       [] OTHER -> fail(StageTwoError(code), NoResult)

\* A variant of the body of count that goes on to the adapter although
\* forgeStageThreeQuery threw.
CountBodyPastStageThree(q, o, stageThreeThrows) ==
  LET code == forgeStageTwoQuery(q, o)
      fail(err, result) == Outcome(q, stageTwoCall, Threw(code), Done(err, result, NoFlag), "done")
      q2 == [q EXCEPT !.criteria = NormalizedCriteria(q.criteria)]
      forged == stageTwoCall \o <<Utility("forgeStageThreeQuery")>>
  IN CASE code = "ok" ->
            IF "count" \notin Collections(o)[q.using].adapter
              THEN Outcome(q2, forged, Passed \cup {Returned(2, stageThreeThrows, "")},
                           Done(Error("capability", "", "Error", q.using \o "." \o q.method,
                                      "none", 0), NoResult, NoFlag),
                           "done")
            ELSE Outcome(q2, forged \o <<adapterCountCall(q2)>>,
                         Passed \cup {Returned(2, stageThreeThrows, "")}, <<>>, "adapter")
       [] code \in {"E_INVALID_CRITERIA", "E_INVALID_META"} -> fail(StageTwoError(code), NoResult)
       [] code = "E_NOOP" -> fail(NoError, Count(0))
       [] OTHER -> fail(StageTwoError(code), NoResult)

\* `stageThreeThrows`: whether forgeStageThreeQuery finds an internal
\* invariant violated.
CountBody(q, o, stageThreeThrows) ==
  LET code == forgeStageTwoQuery(q, o)
      fail(err, result) == Outcome(q, stageTwoCall, Threw(code), Done(err, result, NoFlag), "done")
      q2 == [q EXCEPT !.criteria = NormalizedCriteria(q.criteria)]
      forged == stageTwoCall \o <<Utility("forgeStageThreeQuery")>>
  IN CASE code = "ok" ->
            IF stageThreeThrows
              THEN Outcome(q2, forged, Passed \cup {Returned(2, TRUE, "")},
                           Done(Error("stage3", "", "Error", "", "none", 2), NoResult, NoFlag),
                           "done")
            ELSE IF "count" \notin Collections(o)[q.using].adapter
              THEN Outcome(q2, forged, Passed \cup {Returned(2, FALSE, "")},
                           Done(Error("capability", "", "Error", q.using \o "." \o q.method,
                                      "none", 0), NoResult, NoFlag),
                           "done")
            ELSE Outcome(q2, forged \o <<adapterCountCall(q2)>>,
                         Passed \cup {Returned(2, FALSE, "")}, <<>>, "adapter")
       [] code \in {"E_INVALID_CRITERIA", "E_INVALID_META"} -> fail(StageTwoError(code), NoResult)
       [] code = "E_NOOP" -> fail(NoError, Count(0))
       [] OTHER -> fail(StageTwoError(code), NoResult)

(***************************************************************************)
(* findOrCreate: the body handed to parley (find.ts, lines 474-596).       *)
(***************************************************************************)
STD_NOOP_CRITERIA == Criteria("noop", {})

\* Stage 2 sets an unspecified primary key of the new record to null.
NormalizedNewRecord(r, pk) ==
  IF r.tag = "record" /\ ~Has(r.attrs, pk) THEN NewRecord((pk :> Null) @@ r.attrs) ELSE r

\* delete query.criteria.limit / skip / sort
WithoutPaging(c) == [c EXCEPT !.clauses = @ \ {"limit", "skip", "sort"}]

findOneCall(q) ==
  CallRecord("findOne", q.using, q.criteria.where, {}, NoAttrs, EmptyBag, q.meta)

\* A variant of the body of findOrCreate that reports no record when the
\* criteria is a no-op.
FindOrCreateBodyShortCircuiting(q, o) ==
  LET code == forgeStageTwoQuery(q, o)
      fail(err) == Outcome(q, stageTwoCall, Threw(code), Done(err, NoResult, NoFlag), "done")
      find(q2, back) ==
        LET q3 == [q2 EXCEPT !.criteria = WithoutPaging(q2.criteria)]
        IN Outcome(q3, stageTwoCall \o <<findOneCall(q3)>>, back, <<>>, "findOne")
  IN CASE code = "ok" ->
            find([q EXCEPT !.criteria = NormalizedCriteria(q.criteria),
                           !.newRecord = NormalizedNewRecord(q.newRecord,
                                           Collections(o)[q.using].primaryKey)],
                 Passed)
       [] code = "E_INVALID_CRITERIA" -> fail(UsageError("Invalid criteria."))
       [] code = "E_INVALID_NEW_RECORDS" -> fail(UsageError("Invalid new record(s)."))
       [] code = "E_NOOP" -> fail(NoError)
       [] OTHER -> fail(StageTwoError(code))

FindOrCreateBody(q, o) ==
  LET code == forgeStageTwoQuery(q, o)
      fail(err) == Outcome(q, stageTwoCall, Threw(code), Done(err, NoResult, NoFlag), "done")
      find(q2, back) ==
        LET q3 == [q2 EXCEPT !.criteria = WithoutPaging(q2.criteria)]
        IN Outcome(q3, stageTwoCall \o <<findOneCall(q3)>>, back, <<>>, "findOne")
  IN CASE code = "ok" ->
            find([q EXCEPT !.criteria = NormalizedCriteria(q.criteria),
                           !.newRecord = NormalizedNewRecord(q.newRecord,
                                           Collections(o)[q.using].primaryKey)],
                 Passed)
       [] code = "E_INVALID_CRITERIA" -> fail(UsageError("Invalid criteria."))
       [] code = "E_INVALID_NEW_RECORDS" -> fail(UsageError("Invalid new record(s)."))
       [] code = "E_NOOP" -> find([q EXCEPT !.criteria = STD_NOOP_CRITERIA], Threw(code))
       [] OTHER -> fail(StageTwoError(code))

\* A variant that leaves the new record as stage 2 left it.
WithNullPkKept(q, o) == q

\* The new record once a primary key that is null has been deleted from
\* it (lines 566-570).
WithoutNullPk(q, o) ==
  LET pk == Collections(o)[q.using].primaryKey
      wasPKValueCoercedToNull == Has(q.newRecord.attrs, pk) /\ q.newRecord.attrs[pk] = Null
  IN IF wasPKValueCoercedToNull
       THEN [q EXCEPT !.newRecord =
               NewRecord([a \in DOMAIN q.newRecord.attrs \ {pk} |-> q.newRecord.attrs[a]])]
       ELSE q

\* A variant of the create in whose meta the properties of the caller's
\* meta come last: _.extend({}, { fetch: true }, query.meta || {}).
createCallCallerLast(q) ==
  CallRecord("create", q.using, "", {}, q.newRecord.attrs, EmptyBag,
             Dictionary((IF q.meta.tag = "dictionary" THEN q.meta.dict ELSE NoDict)
                          @@ ("fetch" :> TRUE)))

\* The create that follows a findOne that found nothing (lines 572-594).
createCall(q) ==
  CallRecord("create", q.using, "", {}, q.newRecord.attrs, EmptyBag,
             Dictionary(("fetch" :> TRUE)
                          @@ (IF q.meta.tag = "dictionary" THEN q.meta.dict ELSE NoDict)))


(***************************************************************************)
(* Variadic usage: from the arguments of a call to the query and the       *)
(* explicit callback.  `args` are the arguments of the model method, in    *)
(* the order its usage documents (criteria first for find, count and       *)
(* findOrCreate; targetRecordIds first for replaceCollection); a missing   *)
(* argument reads as `undefined`.                                          *)
(***************************************************************************)
Arg(args, i) == IF i < Len(args) THEN args[i + 1] ELSE Undefined

Query(method, using) ==
  [method |-> method, using |-> using, criteria |-> Undefined,
   populates |-> Undefined, newRecord |-> Undefined,
   targetRecordIds |-> Undefined, collectionAttrName |-> "",
   associatedIds |-> Undefined, meta |-> Undefined]

Usage(q, explicitCbMaybe) == [query |-> q, explicitCbMaybe |-> explicitCbMaybe]

\* find.ts, lines 109-133.
findUsage(using, args) ==
  LET q == Query("find", using) IN
  IF Len(args) >= 1 /\ IsFunction(Arg(args, 0))
    THEN Usage([q EXCEPT !.meta = Arg(args, 1)], Arg(args, 0))
  ELSE IF Len(args) >= 2 /\ IsFunction(Arg(args, 1))
    THEN Usage([q EXCEPT !.criteria = Arg(args, 0), !.meta = Arg(args, 2)], Arg(args, 1))
  ELSE Usage([q EXCEPT !.criteria = Arg(args, 0), !.populates = Arg(args, 1),
                       !.meta = Arg(args, 3)], Arg(args, 2))

\* part_001, lines 109-126 (no call passes moreQueryKeys).
countUsage(using, args) ==
  LET q == Query("count", using) IN
  IF Len(args) >= 1 /\ IsFunction(Arg(args, 0))
    THEN Usage([q EXCEPT !.meta = Arg(args, 1)], Arg(args, 0))
  ELSE Usage([q EXCEPT !.criteria = Arg(args, 0), !.meta = Arg(args, 2)], Arg(args, 1))

\* find.ts, lines 437-446.
findOrCreateUsage(using, args) ==
  Usage([Query("findOrCreate", using) EXCEPT
           !.criteria = Arg(args, 0), !.newRecord = Arg(args, 1), !.meta = Arg(args, 3)],
        Arg(args, 2))

\* replace-collection.ts, lines 126-161.
replaceCollectionUsage(using, args) ==
  LET q == [Query("replaceCollection", using) EXCEPT
              !.targetRecordIds = Arg(args, 0), !.collectionAttrName = Arg(args, 1).where]
      is3rdArgArray == ~IsUndefined(Arg(args, 2))
      explicitCbMaybe == IF is3rdArgArray THEN Arg(args, 3) ELSE Arg(args, 2)
      meta == IF is3rdArgArray THEN Arg(args, 4) ELSE Arg(args, 3)
      q2 == IF is3rdArgArray THEN [q EXCEPT !.associatedIds = Arg(args, 2)] ELSE q
  IN Usage(IF ~IsUndefined(meta) THEN [q2 EXCEPT !.meta = meta] ELSE q2, explicitCbMaybe)


(***************************************************************************)
(* The calls the model makes: the arguments are drawn from these sets.     *)
(***************************************************************************)
\* The `meta` a caller passes when it passes a valid one.
ValidMetas == {Undefined, Dictionary("skipAllLifecycleCallbacks" :> FALSE)}
InvalidMeta == Dictionary("bogus" :> TRUE)
Callbacks == {Function, Undefined}

FindArgs ==
  {<<>>, <<Function>>, <<Function, InvalidMeta>>}
    \cup {<<Criteria(w, {}), c>> : w \in {"valid", "noop", "misspelled"}, c \in Callbacks}
    \cup {<<Criteria("valid", {}), Malformed, Function>>,
          <<Criteria("valid", {}), Dictionary(NoDict), Function, Undefined>>,
          <<Undefined, Undefined, Function, Dictionary("skipAllLifecycleCallbacks" :> TRUE)>>}

CountArgs ==
  {<<>>, <<Function>>, <<Function, InvalidMeta>>}
    \cup {<<Criteria(w, {}), c>> : w \in {"valid", "noop", "misspelled"}, c \in Callbacks}

NewRecords == {NewRecord(NoAttrs)} \cup {NewRecord("id" :> i) : i \in ParentIds}

FindOrCreateArgs ==
  {<<Criteria(w, {}), r, c, m>> :
     w \in {"valid", "noop"}, r \in NewRecords, c \in Callbacks, m \in ValidMetas}
    \cup {<<Criteria("misspelled", {}), NewRecord(NoAttrs), Function>>,
          <<Criteria("valid", {}), Malformed, Function>>,
          <<Criteria("valid", {}), NewRecord(NoAttrs), Function, InvalidMeta>>,
          <<Criteria("valid", {}), NewRecord(NoAttrs), Function,
            Dictionary("fetch" :> FALSE)>>}

\* The target ids and associated ids of a call: no more than MaxPairs pairs.
IdLists ==
  {ta \in (SUBSET ParentIds) \X (SUBSET ChildIds) :
     Cardinality(ta[1]) * Cardinality(ta[2]) <= MaxPairs}

ReplaceCollectionArgs ==
  {<<IdList(ta[1]), String("pets"), IdList(ta[2]), c, m>> :
     ta \in IdLists, c \in Callbacks, m \in ValidMetas}
    \cup {<<Malformed, String("pets"), IdList(ChildIds), Function>>,
          <<IdList(ParentIds), String("petz"), IdList(ChildIds), Function>>,
          <<IdList(ParentIds), String("pets"), Malformed, Function>>,
          <<IdList(ParentIds), String("pets"), IdList(ChildIds), Function, InvalidMeta>>,
          <<IdList(ParentIds), String("pets"), Function>>,
          <<IdList(ParentIds), String("pets"), IdList({}), Function,
            Dictionary("fetch" :> TRUE)>>}
    \cup {<<IdList({t}), String("pets"), IdList({a}), Function, Dictionary("fetch" :> TRUE)>> :
            t \in ParentIds, a \in ChildIds}

(***************************************************************************)
(* Initial state: an ORM initialised with one of the ontologies, a store   *)
(* with any contents, and no operation under way.                          *)
(***************************************************************************)
\* The columns of the join table: the one that refers to `user` and the
\* one that refers to `pet`.
JoinColumns(o) ==
  IF o = "junction" THEN <<"user_pets", "pet_owners">> ELSE <<"user", "pet">>

JoinRows(o) ==
  {JoinRow(JoinColumns(o)[1], JoinColumns(o)[2], u, c) : u \in ParentIds, c \in ChildIds}

PetRecord(id, owner) == [id |-> id, name |-> id, owner |-> owner]

NoSnapshot == [joinTable |-> EmptyBag, petTable |-> <<>>, userTable |-> {}]

\* The methods, each in a module of its own with a DEFERRED_METHODS of its
\* own: getQueryModifierMethods(method), on which no call has set
\* `_WLModel` or `_wlQueryInfo` yet.
Methods == {"find", "count", "findOrCreate", "replaceCollection"}
getQueryModifierMethods(method) == [method |-> method, WLModel |-> "", wlQueryInfo |-> {}]

\* The parent records a store may hold when no call has been made yet:
\* none, or one.
FirstParent == CHOOSE u \in ParentIds : \A v \in ParentIds : u <= v
UserTables == {{}, {FirstParent}}

Init ==
  /\ orm \in Ontologies
  /\ collections = CollectionsTable[orm]
  /\ userTable \in UserTables
  /\ IF orm = "via"
       THEN /\ joinTable = EmptyBag
            /\ petTable \in {[c \in ChildIds |-> PetRecord(c, owners[c])] :
                               owners \in [ChildIds -> ParentIds \cup {Null}]}
       ELSE /\ joinTable \in {SetToBag(rows) : rows \in SUBSET JoinRows(orm)}
            /\ petTable = [c \in ChildIds |-> [id |-> c, name |-> c]]
  /\ pc = [p \in Procs |-> "idle"]
  /\ callArgs = [p \in Procs |-> <<>>]
  /\ query = [p \in Procs |-> Query("", "")]
  /\ cb = [p \in Procs |-> Undefined]
  /\ calls = [p \in Procs |-> <<>>]
  /\ returned = [p \in Procs |-> {}]
  /\ handled = [p \in Procs |-> <<>>]
  /\ eachState = [p \in Procs |-> [completed |-> 0, called |-> FALSE]]
  /\ repeat = [p \in Procs |-> FALSE]
  /\ snapshot = [p \in Procs |-> NoSnapshot]
  /\ DEFERRED_METHODS = [m \in Methods |-> getQueryModifierMethods(m)]


(***************************************************************************)
(* The callbacks of the child operations and adapter calls: what each      *)
(* does when call `i` calls back, failed or not.                           *)
(***************************************************************************)
\* What a callback leaves behind: the calls it makes, the handler
\* invocations, and where the operation is next.
Step(made, hs, next) == [calls |-> made, handled |-> hs, pc |-> next]

\* A variant of proceed that reports a list of records on success:
\* done(undefined, []).
proceedWithRecords(failed, i) ==
  IF failed THEN Step(<<>>, Done(CallError(i), NoResult, NoFlag), "done")
  ELSE Step(<<>>, Done(NoError, Rows({}), NoFlag), "done")

\* A variant of proceed that, on an error, first issues an update that
\* takes every child away from every parent.
proceedCompensating(failed, i) ==
  IF failed
    THEN Step(<<CallRecord("update", "pet", "owner", ParentIds, ("owner" :> Null),
                           EmptyBag, Undefined)>>,
              Done(CallError(i), NoResult, NoFlag), "done")
  ELSE Step(<<>>, Done(NoError, NoResult, NoFlag), "done")

\* A variant of proceed that, on an error, first issues a createEach that
\* puts join rows back.
proceedRestoring(failed, i) ==
  IF failed
    THEN Step(<<CallRecord("createEach", "", "", {}, NoAttrs, EmptyBag, Undefined)>>,
              Done(CallError(i), NoResult, NoFlag), "done")
  ELSE Step(<<>>, Done(NoError, NoResult, NoFlag), "done")

\* proceed(err): lines 528-536.
proceed(failed, i) ==
  IF failed THEN Step(<<>>, Done(CallError(i), NoResult, NoFlag), "done")
  ELSE Step(<<>>, Done(NoError, NoResult, NoFlag), "done")


\* A variant of $afterDestroyingChildRecords that does not look at `err`.
afterDestroyingChildRecordsUnchecked(q, o, i, failed) ==
  IF q.associatedIds.ids = {} THEN proceed(FALSE, i)
  ELSE Step(<<createEachCall(o, q)>>, <<>>, "createEach")

\* A variant of $afterDestroyingChildRecords that goes on to createEach
\* whatever the associated ids are.
afterDestroyingChildRecordsAlwaysCreating(q, o, i, failed) ==
  IF failed THEN proceed(TRUE, i)
  ELSE Step(<<createEachCall(o, q)>>, <<>>, "createEach")

\* $afterDestroyingChildRecords: lines 424-437.
afterDestroyingChildRecords(q, o, i, failed) ==
  IF failed THEN proceed(TRUE, i)
  ELSE IF q.associatedIds.ids = {} THEN proceed(FALSE, i)
  ELSE Step(<<createEachCall(o, q)>>, <<>>, "createEach")


\* A variant of the callback of the null-out update that does not look at
\* `err`.
afterNullOutUnchecked(q, o, i, failed) ==
  IF updateQueries(o, q) = <<>> THEN proceed(FALSE, i)
  ELSE Step(updateQueries(o, q), <<>>, "each")

\* A variant of the callback of the null-out update that waits for the
\* per-pair updates also when there is none.
afterNullOutWaiting(q, o, i, failed) ==
  IF failed THEN proceed(TRUE, i)
  ELSE Step(updateQueries(o, q), <<>>, "each")

\* The callback of the null-out update: lines 510-526.  async.each over
\* no queries calls its callback at once.
afterNullOut(q, o, i, failed) ==
  IF failed THEN proceed(TRUE, i)
  ELSE IF updateQueries(o, q) = <<>> THEN proceed(FALSE, i)
  ELSE Step(updateQueries(o, q), <<>>, "each")


\* A variant of async.each that calls its final callback on every error.
asyncEachNextCallingAgain(each, length, failed) ==
  IF failed
    THEN [completed |-> each.completed, called |-> TRUE, calls |-> TRUE]
    ELSE [completed |-> each.completed + 1,
          called |-> each.called \/ each.completed + 1 = length,
          calls |-> ~each.called /\ each.completed + 1 = length]

\* async.each: the callback `next` of one update.  The final callback is
\* called with the first error, or once every update has succeeded, and
\* never a second time.
asyncEachNext(each, length, failed) ==
  IF failed
    THEN [completed |-> each.completed, called |-> TRUE, calls |-> ~each.called]
    ELSE [completed |-> each.completed + 1,
          called |-> each.called \/ each.completed + 1 = length,
          calls |-> ~each.called /\ each.completed + 1 = length]

\* A variant of _afterFetchingRecords that drops the rows that do not have
\* the shape of the model and reports the others.
afterFetchingRecordsDroppingRows(i, failed, rows) ==
  IF failed THEN [calls |-> <<>>, returned |-> {},
                  handled |-> Done(CallError(i), NoResult, NoFlag)]
  ELSE [calls |-> <<Utility("processAllRecords")>>,
        returned |-> {Returned(i + 1, FALSE, "")},
        handled |-> Done(NoError, Rows({r \in rows : ~r.stale}), NoFlag)]

\* _afterFetchingRecords: find.ts, lines 260-296.  `rows` are the records
\* helpFind called back with; processAllRecords throws if one of them
\* does not have the shape of the model.
afterFetchingRecords(i, failed, rows) ==
  IF failed THEN [calls |-> <<>>, returned |-> {},
                  handled |-> Done(CallError(i), NoResult, NoFlag)]
  ELSE IF \E r \in rows : r.stale
    THEN [calls |-> <<Utility("processAllRecords")>>,
          returned |-> {Returned(i + 1, TRUE, "")},
          handled |-> Done(Error("shape", "", "Error", "", "none", i + 1), NoResult, NoFlag)]
  ELSE [calls |-> <<Utility("processAllRecords")>>,
        returned |-> {Returned(i + 1, FALSE, "")},
        handled |-> Done(NoError, Rows(rows), NoFlag)]

\* A variant of _afterTalkingToAdapter that passes the adapter's error on
\* as it is.
afterTalkingToAdapterUnwrapped(i, failed, numRecords) ==
  IF failed
    THEN Done(CallError(i), NoResult, NoFlag)
    ELSE Done(NoError, Count(numRecords), NoFlag)

\* _afterTalkingToAdapter: part_001, lines 213-221.  forgeAdapterError
\* wraps the adapter's error with the omen.
afterTalkingToAdapter(i, failed, numRecords) ==
  IF failed
    THEN Done(Error("adapter", "", "AdapterError", "omen", "none", i), NoResult, NoFlag)
    ELSE Done(NoError, Count(numRecords), NoFlag)


\* A variant of _afterPotentiallyFinding that creates whatever was found.
afterPotentiallyFindingAlwaysCreating(q, o, i, failed, found) ==
  IF failed THEN Step(<<>>, Done(CallError(i), NoResult, NoFlag), "done")
  ELSE Step(<<createCall(WithoutNullPk(q, o))>>, <<>>, "create")

\* A variant of _afterPotentiallyFinding that calls findOne again when
\* findOne called back with an error.
afterPotentiallyFindingRetrying(q, o, i, failed, found) ==
  IF failed THEN Step(<<findOneCall(q)>>, <<>>, "findOne")
  ELSE IF found # Null THEN Step(<<>>, Done(NoError, Record(found), "false"), "done")
  ELSE Step(<<createCall(WithoutNullPk(q, o))>>, <<>>, "create")

\* A variant of _afterPotentiallyFinding that reports an error when findOne
\* found no record.
afterPotentiallyFindingOrFailing(q, o, i, failed, found) ==
  IF failed THEN Step(<<>>, Done(CallError(i), NoResult, NoFlag), "done")
  ELSE IF found # Null THEN Step(<<>>, Done(NoError, Record(found), "false"), "done")
  ELSE Step(<<>>, Done(Error("notFound", "", "Error", "", "none", i), NoResult, NoFlag), "done")

\* A variant of _afterPotentiallyFinding that invokes create twice.
afterPotentiallyFindingCreatingTwice(q, o, i, failed, found) ==
  IF failed THEN Step(<<>>, Done(CallError(i), NoResult, NoFlag), "done")
  ELSE IF found # Null THEN Step(<<>>, Done(NoError, Record(found), "false"), "done")
  ELSE Step(<<createCall(WithoutNullPk(q, o)), createCall(WithoutNullPk(q, o))>>, <<>>, "create")

\* _afterPotentiallyFinding: find.ts, lines 548-594.  `found` is the id of
\* the record findOne called back with, Null when it found none.
afterPotentiallyFinding(q, o, i, failed, found) ==
  IF failed THEN Step(<<>>, Done(CallError(i), NoResult, NoFlag), "done")
  ELSE IF found # Null THEN Step(<<>>, Done(NoError, Record(found), "false"), "done")
  ELSE Step(<<createCall(WithoutNullPk(q, o))>>, <<>>, "create")

\* _afterCreating: find.ts, lines 579-594.
afterCreating(i, failed, created) ==
  IF failed THEN Done(CallError(i), NoResult, NoFlag)
  ELSE Done(NoError, Record(created), "true")


(***************************************************************************)
(* Actions.                                                                *)
(***************************************************************************)
store == <<joinTable, petTable, userTable>>

Body(q, o, stageThreeThrows) ==
  CASE q.method = "find" -> FindBody(q, o)
    [] q.method = "count" -> CountBody(q, o, stageThreeThrows)
    [] q.method = "findOrCreate" -> FindOrCreateBody(q, o)
    [] q.method = "replaceCollection" -> ReplaceCollectionBody(q, o)

\* The body runs, from its start to its first suspension.
RunBody(p, q) ==
  \E stageThreeThrows \in IF q.method = "count" THEN BOOLEAN ELSE {FALSE} :
    LET out == Body(q, orm, stageThreeThrows) IN
    /\ query' = [query EXCEPT ![p] = out.query]
    /\ calls' = [calls EXCEPT ![p] = out.calls]
    /\ returned' = [returned EXCEPT ![p] = out.returned]
    /\ handled' = [handled EXCEPT ![p] = out.handled]
    /\ pc' = [pc EXCEPT ![p] = out.pc]
    /\ snapshot' = [snapshot EXCEPT ![p] = [joinTable |-> joinTable, petTable |-> petTable,
                                         userTable |-> userTable]]

Succeeded(p) == Len(handled[p]) = 1 /\ handled[p][1].err = NoError

\* _.extend(DEFERRED_METHODS, { _WLModel: WLModel, _wlQueryInfo: query }):
\* the dictionary of the method, extended in place.  `wlQueryInfo` refers
\* to the query of the call, which is the query of caller `p`.
Extended(methods, p, q) ==
  [methods EXCEPT !.WLModel = q.using, !.wlQueryInfo = {p}]

\* parley(body, explicitCbMaybe, methods): with a callback the body runs
\* at once, without one a Deferred is returned.  The third argument is
\* the dictionary of the method, extended with the model and the query.
Parley(p, usage) ==
  /\ cb' = [cb EXCEPT ![p] = usage.explicitCbMaybe]
  /\ IF IsFunction(usage.explicitCbMaybe)
       THEN RunBody(p, usage.query)
       ELSE /\ query' = [query EXCEPT ![p] = usage.query]
            /\ pc' = [pc EXCEPT ![p] = "deferred"]
            /\ UNCHANGED <<calls, returned, handled, snapshot>>
  /\ DEFERRED_METHODS' =
       [DEFERRED_METHODS EXCEPT ![usage.query.method] = Extended(@, p, usage.query)]
  /\ UNCHANGED <<orm, collections, store, eachState, repeat>>

\* WLModel.find(...), called by a caller with no operation under way.
Find(p) ==
  \E using \in {"user"}, given \in FindArgs :
    /\ pc[p] = "idle"
    /\ callArgs' = [callArgs EXCEPT ![p] = given]
    /\ Parley(p, findUsage(using, given))

\* WLModel.count(...).
CountRecords(p) ==
  \E using \in {"user", "archive"}, given \in CountArgs :
    /\ pc[p] = "idle"
    /\ callArgs' = [callArgs EXCEPT ![p] = given]
    /\ Parley(p, countUsage(using, given))

\* WLModel.findOrCreate(...).
FindOrCreate(p) ==
  \E using \in {"user"}, given \in FindOrCreateArgs :
    /\ pc[p] = "idle"
    /\ callArgs' = [callArgs EXCEPT ![p] = given]
    /\ Parley(p, findOrCreateUsage(using, given))

\* WLModel.replaceCollection(...).
ReplaceCollection(p) ==
  \E using \in {"user"}, given \in ReplaceCollectionArgs :
    /\ pc[p] = "idle"
    /\ callArgs' = [callArgs EXCEPT ![p] = given]
    /\ Parley(p, replaceCollectionUsage(using, given))

\* deferred.exec(cb): the body of a Deferred runs.
Exec(p) ==
  /\ pc[p] = "deferred"
  /\ cb' = [cb EXCEPT ![p] = Function]
  /\ RunBody(p, query[p])
  /\ UNCHANGED <<orm, collections, DEFERRED_METHODS, store, callArgs, eachState, repeat>>

\* A callback has run: call `i` is back with `result`, and `step` is what
\* the callback left.
Continue(p, i, failed, result, step) ==
  /\ returned' = [returned EXCEPT ![p] = @ \cup {CalledBack(i, failed, result)}]
  /\ calls' = [calls EXCEPT ![p] = @ \o step.calls]
  /\ handled' = [handled EXCEPT ![p] = @ \o step.handled]
  /\ pc' = [pc EXCEPT ![p] = step.pc]

\* The child destroy completes and calls back (with nothing but `err`:
\* its meta says `fetch: false`).
DestroyCallsBack(p) ==
  /\ pc[p] = "destroy"
  /\ \E i \in InFlight(p), failed \in BOOLEAN :
       /\ ~IsValidChildCall(orm, calls[p][i]) => failed
       /\ joinTable' = IF failed THEN joinTable ELSE AfterDestroy(joinTable, calls[p][i])
       /\ Continue(p, i, failed, NoResult,
                   afterDestroyingChildRecords(query[p], orm, i, failed))
  /\ UNCHANGED <<orm, collections, DEFERRED_METHODS, petTable, userTable, callArgs, query, cb, eachState, repeat, snapshot>>

\* The child createEach completes and calls back (with nothing but `err`:
\* its meta says `fetch: false`).
CreateEachCallsBack(p) ==
  /\ pc[p] = "createEach"
  /\ \E i \in InFlight(p), failed \in BOOLEAN :
       /\ ~IsValidChildCall(orm, calls[p][i]) => failed
       /\ joinTable' = IF failed THEN joinTable ELSE AfterCreateEach(joinTable, calls[p][i])
       /\ Continue(p, i, failed, NoResult, proceed(failed, i))
  /\ UNCHANGED <<orm, collections, DEFERRED_METHODS, petTable, userTable, callArgs, query, cb, eachState, repeat, snapshot>>

\* The null-out update completes and calls back.
NullOutCallsBack(p) ==
  /\ pc[p] = "nullOut"
  /\ \E i \in InFlight(p), failed \in BOOLEAN :
       /\ ~IsValidChildCall(orm, calls[p][i]) => failed
       /\ petTable' = IF failed THEN petTable ELSE AfterUpdate(petTable, calls[p][i])
       /\ Continue(p, i, failed,
                   IF failed THEN NoResult ELSE Fetched(petTable, calls[p][i]),
                   afterNullOut(query[p], orm, i, failed))
  /\ UNCHANGED <<orm, collections, DEFERRED_METHODS, joinTable, userTable, callArgs, query, cb, eachState, repeat, snapshot>>

\* One of the per-pair updates completes and calls back, in any order,
\* also after the final callback of async.each has been called.
PairUpdateCallsBack(p) ==
  /\ pc[p] \in {"each", "done"}
  /\ query[p].method = "replaceCollection"
  /\ \E i \in InFlight(p), failed \in BOOLEAN :
       LET each == asyncEachNext(eachState[p], Len(updateQueries(orm, query[p])), failed) IN
       /\ ~IsValidChildCall(orm, calls[p][i]) => failed
       /\ petTable' = IF failed THEN petTable ELSE AfterUpdate(petTable, calls[p][i])
       /\ eachState' = [eachState EXCEPT ![p] =
                          [completed |-> each.completed, called |-> each.called]]
       /\ Continue(p, i, failed,
                   IF failed THEN NoResult ELSE Fetched(petTable, calls[p][i]),
                   IF each.calls THEN proceed(failed, i) ELSE Step(<<>>, <<>>, pc[p]))
  /\ UNCHANGED <<orm, collections, DEFERRED_METHODS, joinTable, userTable, callArgs, query, cb, repeat, snapshot>>

\* The rows helpFind may call back with.
SampleRows ==
  {[id |-> u, stale |-> FALSE] : u \in ParentIds} \cup {[id |-> 1, stale |-> TRUE]}

\* helpFind calls back.
HelpFindCallsBack(p) ==
  /\ pc[p] = "helpFind"
  /\ \E i \in InFlight(p), failed \in BOOLEAN, rows \in SUBSET SampleRows :
       LET after == afterFetchingRecords(i, failed, rows) IN
       /\ failed => rows = {}
       /\ returned' = [returned EXCEPT ![p] =
                         @ \cup {CalledBack(i, failed, Rows(rows))} \cup after.returned]
       /\ calls' = [calls EXCEPT ![p] = @ \o after.calls]
       /\ handled' = [handled EXCEPT ![p] = @ \o after.handled]
       /\ pc' = [pc EXCEPT ![p] = "done"]
  /\ UNCHANGED <<orm, collections, DEFERRED_METHODS, store, callArgs, query, cb, eachState, repeat, snapshot>>

\* The adapter's count calls back.
AdapterCallsBack(p) ==
  /\ pc[p] = "adapter"
  /\ \E i \in InFlight(p), failed \in BOOLEAN, numRecords \in 0..NumParents :
       /\ failed => numRecords = 0
       /\ Continue(p, i, failed, IF failed THEN NoResult ELSE Count(numRecords),
                   Step(<<>>, afterTalkingToAdapter(i, failed, numRecords), "done"))
  /\ UNCHANGED <<orm, collections, DEFERRED_METHODS, store, callArgs, query, cb, eachState, repeat, snapshot>>

\* The child findOne calls back: with an error, or with the record that
\* matches the criteria, or with none when none matches.  More than one
\* matching record is an error of findOne.
FindOneCallsBack(p) ==
  /\ pc[p] = "findOne"
  /\ \E i \in InFlight(p), failed \in BOOLEAN, found \in ParentIds \cup {Null} :
       /\ failed => found = Null
       /\ query[p].criteria.where = "noop" => found = Null
       /\ Cardinality(MatchingUsers(userTable, query[p].criteria)) > 1 => failed
       /\ ~failed => IF MatchingUsers(userTable, query[p].criteria) = {}
                        THEN found = Null
                        ELSE found \in MatchingUsers(userTable, query[p].criteria)
       /\ Continue(p, i, failed, IF found = Null THEN NoResult ELSE Record(found),
                   afterPotentiallyFinding(query[p], orm, i, failed, found))
       /\ query' = [query EXCEPT ![p] =
                      IF ~failed /\ found = Null THEN WithoutNullPk(@, orm) ELSE @]
  /\ UNCHANGED <<orm, collections, DEFERRED_METHODS, store, callArgs, cb, eachState, repeat, snapshot>>

\* The child create calls back, with the record it created, which is
\* then in the store.  A primary key that a record already has is an
\* error of create.
CreateCallsBack(p) ==
  /\ pc[p] = "create"
  /\ \E i \in InFlight(p), failed \in BOOLEAN, created \in ParentIds :
       /\ Has(calls[p][i].values, "id") => created = calls[p][i].values["id"]
       /\ created \in userTable => failed
       /\ userTable' = IF failed THEN userTable ELSE userTable \cup {created}
       /\ Continue(p, i, failed, IF failed THEN NoResult ELSE Record(created),
                   Step(<<>>, afterCreating(i, failed, created), "done"))
  /\ UNCHANGED <<orm, collections, DEFERRED_METHODS, joinTable, petTable, callArgs, query, cb,
                 eachState, repeat, snapshot>>

\* The caller calls replaceCollection once more, with the arguments of the
\* call it has just seen succeed.
ReplaceCollectionAgain(p) ==
  /\ pc[p] = "done" /\ Succeeded(p) /\ InFlight(p) = {}
  /\ query[p].method = "replaceCollection"
  /\ repeat' = [repeat EXCEPT ![p] = TRUE]
  /\ eachState' = [eachState EXCEPT ![p] = [completed |-> 0, called |-> FALSE]]
  /\ RunBody(p, query[p])
  /\ DEFERRED_METHODS' =
       [DEFERRED_METHODS EXCEPT ![query[p].method] = Extended(@, p, query[p])]
  /\ UNCHANGED <<orm, collections, store, callArgs, cb>>

\* The caller is through with an operation whose calls are all back: it
\* lets go of the query and is free to make another call.  What the call
\* set on DEFERRED_METHODS stays.
Return(p) ==
  /\ pc[p] = "done" /\ InFlight(p) = {}
  /\ pc' = [pc EXCEPT ![p] = "idle"]
  /\ callArgs' = [callArgs EXCEPT ![p] = <<>>]
  /\ query' = [query EXCEPT ![p] = Query("", "")]
  /\ cb' = [cb EXCEPT ![p] = Undefined]
  /\ calls' = [calls EXCEPT ![p] = <<>>]
  /\ returned' = [returned EXCEPT ![p] = {}]
  /\ handled' = [handled EXCEPT ![p] = <<>>]
  /\ eachState' = [eachState EXCEPT ![p] = [completed |-> 0, called |-> FALSE]]
  /\ repeat' = [repeat EXCEPT ![p] = FALSE]
  /\ snapshot' = [snapshot EXCEPT ![p] = NoSnapshot]
  /\ UNCHANGED <<orm, collections, DEFERRED_METHODS, store>>

Steps(p) ==
  \/ Find(p)
  \/ CountRecords(p)
  \/ FindOrCreate(p)
  \/ ReplaceCollection(p)
  \/ ReplaceCollectionAgain(p)
  \/ Exec(p)
  \/ DestroyCallsBack(p)
  \/ CreateEachCallsBack(p)
  \/ NullOutCallsBack(p)
  \/ PairUpdateCallsBack(p)
  \/ HelpFindCallsBack(p)
  \/ AdapterCallsBack(p)
  \/ FindOneCallsBack(p)
  \/ CreateCallsBack(p)

\* One caller and one operation (which replaceCollection may repeat), on
\* a store with any contents.
Next == Steps(Caller)

Spec == Init /\ [][Next]_vars

(***************************************************************************)
(* The same caller, with every adapter call and child operation that is    *)
(* in flight calling back sooner or later.  Nothing obliges a caller to    *)
(* make a call or to execute a Deferred.  The store is empty: whether and  *)
(* when a call calls back does not depend on what the store holds.         *)
(***************************************************************************)
InitCallingBack ==
  /\ Init
  /\ joinTable = EmptyBag
  /\ orm = "via" => \A c \in ChildIds : petTable[c].owner = Null
  /\ userTable = {}

CallsBack(p) ==
  \/ DestroyCallsBack(p)
  \/ CreateEachCallsBack(p)
  \/ NullOutCallsBack(p)
  \/ PairUpdateCallsBack(p)
  \/ HelpFindCallsBack(p)
  \/ AdapterCallsBack(p)
  \/ FindOneCallsBack(p)
  \/ CreateCallsBack(p)

SpecCallingBack == InitCallingBack /\ [][Next]_vars /\ WF_vars(CallsBack(Caller))

(***************************************************************************)
(* Several callers in one process: each builds Deferreds of find and of    *)
(* count and executes them, one operation after the other, while the       *)
(* other callers do the same.  The store is empty.                         *)
(***************************************************************************)
BuilderCriteria == {<<>>, <<Criteria("valid", {})>>}

\* WLModel.find(criteria), without a callback: a Deferred.
FindLater(p) ==
  \E using \in {"user"}, given \in BuilderCriteria :
    /\ pc[p] = "idle"
    /\ callArgs' = [callArgs EXCEPT ![p] = given]
    /\ Parley(p, findUsage(using, given))

\* WLModel.count(criteria), without a callback: a Deferred.
CountLater(p) ==
  \E using \in {"user", "archive"}, given \in BuilderCriteria :
    /\ pc[p] = "idle"
    /\ callArgs' = [callArgs EXCEPT ![p] = given]
    /\ Parley(p, countUsage(using, given))

BuilderSteps(p) ==
  \/ FindLater(p)
  \/ CountLater(p)
  \/ Exec(p)
  \/ HelpFindCallsBack(p)
  \/ AdapterCallsBack(p)
  \/ Return(p)

InitBuilders == Init /\ orm = "junction" /\ joinTable = EmptyBag /\ userTable = {}

NextBuilders == \E p \in Procs : BuilderSteps(p)

SpecBuilders == InitBuilders /\ [][NextBuilders]_vars


(***************************************************************************)
(* replaceCollection on an ORM with an un-normalized identity: one caller  *)
(* calls replaceCollection on the parent model, under the identity with    *)
(* which the ORM registered it.                                            *)
(***************************************************************************)
InitUnnormalized ==
  /\ orm \in Unnormalized
  /\ collections = CollectionsTable[orm]
  /\ userTable = {}
  /\ joinTable = EmptyBag
  /\ petTable \in {[c \in ChildIds |-> PetRecord(c, owners[c])] :
                     owners \in [ChildIds -> ParentIds \cup {Null}]}
  /\ pc = [p \in Procs |-> "idle"]
  /\ callArgs = [p \in Procs |-> <<>>]
  /\ query = [p \in Procs |-> Query("", "")]
  /\ cb = [p \in Procs |-> Undefined]
  /\ calls = [p \in Procs |-> <<>>]
  /\ returned = [p \in Procs |-> {}]
  /\ handled = [p \in Procs |-> <<>>]
  /\ eachState = [p \in Procs |-> [completed |-> 0, called |-> FALSE]]
  /\ repeat = [p \in Procs |-> FALSE]
  /\ snapshot = [p \in Procs |-> NoSnapshot]
  /\ DEFERRED_METHODS = [m \in Methods |-> getQueryModifierMethods(m)]

\* WLModel.replaceCollection(...): `using` is the identity of WLModel.
ReplaceCollectionOfParent(p) ==
  \E using \in {"user", "User"} \cap DOMAIN Collections(orm), given \in ReplaceCollectionArgs :
    /\ pc[p] = "idle"
    /\ callArgs' = [callArgs EXCEPT ![p] = given]
    /\ Parley(p, replaceCollectionUsage(using, given))

NextUnnormalized == ReplaceCollectionOfParent(Caller) \/ Exec(Caller)

SpecUnnormalized == InitUnnormalized /\ [][NextUnnormalized]_vars


(***************************************************************************)
(* Two callers in one process, each calling findOrCreate while the other   *)
(* does the same, on a store that holds no parent record: the callbacks    *)
(* of the two operations interleave in any order.                          *)
(***************************************************************************)
FinderSteps(p) ==
  \/ FindOrCreate(p)
  \/ Exec(p)
  \/ FindOneCallsBack(p)
  \/ CreateCallsBack(p)

InitFinders == Init /\ orm = "junction" /\ joinTable = EmptyBag /\ userTable = {}

NextFinders == \E p \in Procs : FinderSteps(p)

SpecFinders == InitFinders /\ [][NextFinders]_vars


(***************************************************************************)
(* Properties.  What they speak of: the calls of an operation by the       *)
(* operation they invoke, and how each call came back.                     *)
(***************************************************************************)
\* The indexes in `calls` of the calls of `op`.
Ops(p, op) == {i \in 1..Len(calls[p]) : calls[p][i].op = op}
BackOk(p, i) == \E r \in returned[p] : r.idx = i /\ ~r.err
BackErr(p, i) == \E r \in returned[p] : r.idx = i /\ r.err
StageTwoThrew(p, code) == \E r \in returned[p] : r.idx = 1 /\ r.err /\ r.code = code
IsReplaceCollection(p) == query[p].method = "replaceCollection"

\* The foreign key of `pet` in the ontology "via", and the columns of the
\* join table that hold the parent and the child in the other two.
Via == "owner"
ParentColumn == JoinColumns(orm)[1]
ChildColumn == JoinColumns(orm)[2]

\* The null-out update is the update that sets `via` to null; the
\* per-pair updates are the others.
NullOuts(p) == {i \in Ops(p, "update") : calls[p][i].values = (Via :> Null)}
PairUpdates(p) == Ops(p, "update") \ NullOuts(p)

\* The join rows of a table that belong to one of `parents`.
RowsOf(table, parents) == {r \in BagToSet(table) : r[ParentColumn] \in parents}

TargetIds(p) == query[p].targetRecordIds.ids
AssociatedIds(p) == query[p].associatedIds.ids

\* C1: in a many-to-many replaceCollection a createEach is in `calls` only
\* when a destroy before it has called back without error; destroy and
\* createEach are never in flight together; once the destroy has called
\* back with an error there is no createEach and the handler has been
\* called once, with that error.
C1_CreateEachOnlyAfterDestroy ==
  \A p \in Procs :
    /\ \A i \in Ops(p, "createEach") :
         \E j \in Ops(p, "destroy") : j < i /\ BackOk(p, j)
    /\ \A j \in Ops(p, "destroy") :
         /\ j \in InFlight(p) => Ops(p, "createEach") = {}
         /\ BackErr(p, j) =>
              /\ Ops(p, "createEach") = {}
              /\ handled[p] = Done(CallError(j), NoResult, NoFlag)

\* A createEach is in flight, its destroy is back.
C1_Witness ==
  \E i \in Ops(Caller, "createEach") :
    /\ i \in InFlight(Caller)
    /\ \E j \in Ops(Caller, "destroy") : BackOk(Caller, j)

\* C2: when a many-to-many replaceCollection has succeeded, the join rows
\* of its targets are exactly one row per (target id, associated id),
\* whatever the table held before.
C2_JoinRowsAreTheProduct ==
  \A p \in Procs :
    (IsReplaceCollection(p) /\ orm # "via" /\ pc[p] = "done" /\ Succeeded(p)) =>
      /\ RowsOf(joinTable, TargetIds(p))
           = {JoinRow(ParentColumn, ChildColumn, t, a) :
                t \in TargetIds(p), a \in AssociatedIds(p)}
      /\ \A r \in RowsOf(joinTable, TargetIds(p)) : CopiesIn(r, joinTable) = 1

\* Both parents were targets, rows were inserted, and the table is not
\* what it was.
C2_Witness ==
  /\ IsReplaceCollection(Caller) /\ orm = "through"
  /\ pc[Caller] = "done" /\ Succeeded(Caller)
  /\ TargetIds(Caller) = ParentIds /\ AssociatedIds(Caller) # {}
  /\ \E i \in Ops(Caller, "createEach") : BackOk(Caller, i)
  /\ snapshot[Caller].joinTable # joinTable

\* C3: when a many-to-many replaceCollection that repeats the successful
\* call before it has succeeded too, the join table is what the first
\* call left.
C3_Idempotent ==
  \A p \in Procs :
    (IsReplaceCollection(p) /\ orm # "via" /\ repeat[p]
       /\ pc[p] = "done" /\ Succeeded(p)) =>
      joinTable = snapshot[p].joinTable

\* The repeated call has destroyed and inserted rows.
C3_Witness ==
  /\ IsReplaceCollection(Caller) /\ orm = "junction" /\ repeat[Caller]
  /\ pc[Caller] = "done" /\ Succeeded(Caller)
  /\ \E i \in Ops(Caller, "createEach") : BackOk(Caller, i)
  /\ joinTable # EmptyBag

\* C4: when a one-to-many replaceCollection with no associated ids has
\* succeeded, every child whose `via` was a target id has `via` = null,
\* every other child is as it was, and there was no per-pair update.
C4_EmptyAssociatedIdsNullsOut ==
  \A p \in Procs :
    (IsReplaceCollection(p) /\ orm = "via" /\ pc[p] = "done" /\ Succeeded(p)
       /\ query[p].associatedIds = IdList({})) =>
      /\ PairUpdates(p) = {}
      /\ \A c \in DOMAIN petTable :
           petTable[c] =
             IF snapshot[p].petTable[c][Via] \in TargetIds(p)
               THEN [snapshot[p].petTable[c] EXCEPT ![Via] = Null]
               ELSE snapshot[p].petTable[c]

\* A child of a target was nulled out.
C4_Witness ==
  /\ IsReplaceCollection(Caller) /\ orm = "via"
  /\ pc[Caller] = "done" /\ Succeeded(Caller)
  /\ query[Caller].associatedIds = IdList({})
  /\ \E c \in DOMAIN petTable :
       /\ snapshot[Caller].petTable[c][Via] \in TargetIds(Caller)
       /\ petTable[c][Via] = Null

\* C5: once stage 2 has signalled E_NOOP, find has called its handler with
\* (no error, no records) and count with (no error, 0), and stage 2 is the
\* only call either has made.
C5_NoopReadsNothing ==
  \A p \in Procs :
    StageTwoThrew(p, "E_NOOP") =>
      /\ query[p].method = "find" =>
           /\ handled[p] = Done(NoError, Rows({}), NoFlag)
           /\ calls[p] = stageTwoCall
      /\ query[p].method = "count" =>
           /\ handled[p] = Done(NoError, Count(0), NoFlag)
           /\ calls[p] = stageTwoCall

\* A find whose criteria is a no-op has been run.
C5_Witness ==
  /\ query[Caller].method = "find"
  /\ StageTwoThrew(Caller, "E_NOOP")
  /\ Len(handled[Caller]) = 1

\* C6: in findOrCreate, once findOne has called back: with an error, the
\* handler has that error and there is no create; with a record, the
\* handler has (no error, that record, false) and there is no create; with
\* no record, there is exactly one create, called with the new record the
\* caller supplied, and the handler is called when it calls back, with its
\* error or with (no error, the record created, true).  Before findOne has
\* called back there is no create and the handler has not been called.
C6_FindOrCreate ==
  \A p \in Procs :
    query[p].method = "findOrCreate" =>
      /\ Cardinality(Ops(p, "findOne")) <= 1
      /\ \A f \in Ops(p, "findOne") :
           /\ f \in InFlight(p) => Ops(p, "create") = {} /\ handled[p] = <<>>
           /\ \A r \in returned[p] :
                r.idx = f =>
                  IF r.err
                    THEN /\ Ops(p, "create") = {}
                         /\ handled[p] = Done(CallError(f), NoResult, NoFlag)
                  ELSE IF r.result # NoResult
                    THEN /\ Ops(p, "create") = {}
                         /\ handled[p] = Done(NoError, r.result, "false")
                  ELSE /\ Cardinality(Ops(p, "create")) = 1
                       /\ \A c \in Ops(p, "create") :
                            /\ calls[p][c].values = Arg(callArgs[p], 1).attrs
                            /\ c \in InFlight(p) => handled[p] = <<>>
                            /\ \A rc \in returned[p] :
                                 rc.idx = c =>
                                   handled[p] =
                                     IF rc.err
                                       THEN Done(CallError(c), NoResult, NoFlag)
                                       ELSE Done(NoError, rc.result, "true")

\* findOne found nothing and the create has called back with a record.
C6_Witness ==
  /\ query[Caller].method = "findOrCreate"
  /\ \E c \in Ops(Caller, "create") : BackOk(Caller, c)
  /\ Len(handled[Caller]) = 1 /\ handled[Caller][1].extra = "true"

\* C7: once stage 2 has thrown an error other than E_NOOP, the handler has
\* been called once, with an error, and stage 2 is the only call the
\* operation has made.
C7_StageTwoFailureStops ==
  \A p \in Procs :
    \A r \in returned[p] :
      (r.idx = 1 /\ r.err /\ r.code # "E_NOOP") =>
        /\ Len(handled[p]) = 1
        /\ handled[p][1].err # NoError
        /\ calls[p] = stageTwoCall

\* A replaceCollection whose associated ids are invalid has been run.
C7_Witness ==
  /\ IsReplaceCollection(Caller)
  /\ StageTwoThrew(Caller, "E_INVALID_ASSOCIATED_IDS")
  /\ Len(handled[Caller]) = 1

\* C8, a step: the per-pair updates are dispatched all at once, one per
\* (target id, associated id); when one of them calls back, the handler is
\* called if and only if it has not been called yet and either this update
\* failed (the handler gets its error) or every update has now succeeded
\* (the handler gets no error).
C8_Step(p) ==
  LET before == PairUpdates(p)
      after == {i \in 1..Len(calls'[p]) :
                  /\ calls'[p][i].op = "update"
                  /\ calls'[p][i].values # (Via :> Null)}
      back == {r \in returned'[p] \ returned[p] : r.idx \in before}
      allSucceeded == \A i \in after : \E r \in returned'[p] : r.idx = i /\ ~r.err
  IN /\ (before = {} /\ after # {}) =>
          /\ Cardinality(after)
               = Cardinality(query'[p].targetRecordIds.ids)
                   * Cardinality(query'[p].associatedIds.ids)
          /\ \A i \in after : \A r \in returned'[p] : r.idx # i
     /\ (IsReplaceCollection(p) /\ calls'[p] = calls[p]) =>
          \A r \in back :
            handled'[p] =
              IF handled[p] # <<>> THEN handled[p]
              ELSE IF r.err THEN Done(CallError(r.idx), NoResult, NoFlag)
              ELSE IF allSucceeded THEN Done(NoError, NoResult, NoFlag)
              ELSE <<>>

\* C8: in a one-to-many replaceCollection the per-pair updates are in
\* flight together, and under every order of their completions the handler
\* is called exactly once: with the error of the first update that fails,
\* or with no error when all have succeeded.
C8_HandlerOnceUnderEveryInterleaving == [][\A p \in Procs : C8_Step(p)]_vars

\* Two per-pair updates have both failed; the handler was called once.
C8_Witness ==
  /\ Cardinality(PairUpdates(Caller)) >= 2
  /\ \A i \in PairUpdates(Caller) : BackErr(Caller, i)
  /\ Len(handled[Caller]) = 1

\* C9: in a one-to-many replaceCollection a per-pair update is in `calls`
\* only when the null-out update before it has called back without error;
\* once the null-out update has called back with an error there is no
\* per-pair update and the handler has been called once, with that error.
C9_NullOutFirst ==
  \A p \in Procs :
    /\ \A i \in PairUpdates(p) : \E j \in NullOuts(p) : j < i /\ BackOk(p, j)
    /\ \A j \in NullOuts(p) :
         BackErr(p, j) =>
           /\ PairUpdates(p) = {}
           /\ handled[p] = Done(CallError(j), NoResult, NoFlag)

\* The per-pair updates are in flight, the null-out update is back.
C9_Witness ==
  /\ PairUpdates(Caller) # {}
  /\ PairUpdates(Caller) \subseteq InFlight(Caller)
  /\ \E j \in NullOuts(Caller) : BackOk(Caller, j)

\* A result handler is among the arguments of the call.
HandlerSupplied(p) == \E k \in 1..Len(callArgs[p]) : IsFunction(callArgs[p][k])
BodyHasRun(p) == calls[p] # <<>>

\* C10: a call that supplies a result handler runs the body of the
\* operation at once; a call that supplies none returns a Deferred, and
\* the body has run only if the Deferred has been executed.
C10_HandlerRunsTheBodyAtOnce ==
  \A p \in Procs :
    pc[p] # "idle" =>
      IF HandlerSupplied(p)
        THEN BodyHasRun(p)
        ELSE BodyHasRun(p) => IsFunction(cb[p])

\* The query of the operation of caller `p` can be reached from the
\* DEFERRED_METHODS of `method`.
HoldsQueryOf(method, p) ==
  /\ pc[p] # "idle"
  /\ query[p].method = method
  /\ p \in DEFERRED_METHODS[method].wlQueryInfo

\* C12: no call of a method reads or overwrites state that holds the query
\* of another caller's operation: when a caller makes a call, the
\* DEFERRED_METHODS of the method does not hold the query that another
\* caller has built and not let go of.
C12_NoQueryInSharedState ==
  [][\A p, r \in Procs :
       (p # r /\ pc[r] = "idle" /\ pc'[r] # "idle") =>
         ~HoldsQueryOf(query'[r].method, p)]_vars


\* The schema entry of the association of a replaceCollection, the model
\* it references, and whether that model is a join model: one with the
\* junctionTable flag set, or with a throughTable mapping of at least one
\* entry.
AssociationEntry(p) == Collections(orm)[query[p].using].schema[query[p].collectionAttrName]
AssociatedModel(p) == Collections(orm)[AssociationEntry(p).referenceIdentity]
IsJoinModel(model) ==
  \/ "junctionTable" \in model.own /\ model.junctionTable
  \/ "throughTable" \in model.own /\ Cardinality(DOMAIN model.throughTable) >= 1

\* Stage 2 has returned without throwing.
StageTwoPassed(p) == BackOk(p, 1)
ChildOps(p) == Ops(p, "destroy") \cup Ops(p, "createEach") \cup Ops(p, "update")

CallersMeta(p) == callArgs[p][Len(callArgs[p])]

\* C14: every destroy, createEach and update that replaceCollection issues
\* is called with a meta whose skipAllLifecycleCallbacks is true, also
\* when the caller's meta says false, and the meta of the query stays the
\* dictionary the caller passed.
C14_ChildOpsSkipLifecycleCallbacks ==
  \A p \in Procs :
    IsReplaceCollection(p) =>
      /\ \A i \in ChildOps(p) :
           /\ calls[p][i].meta.tag = "dictionary"
           /\ Has(calls[p][i].meta.dict, "skipAllLifecycleCallbacks")
           /\ calls[p][i].meta.dict["skipAllLifecycleCallbacks"]
      /\ (Len(callArgs[p]) = 5 /\ BodyHasRun(p)) => query[p].meta = CallersMeta(p)

\* The caller's meta says skipAllLifecycleCallbacks: false, and the
\* per-pair updates have been issued.
C14_Witness ==
  /\ IsReplaceCollection(Caller)
  /\ Len(callArgs[Caller]) = 5
  /\ CallersMeta(Caller) = Dictionary("skipAllLifecycleCallbacks" :> FALSE)
  /\ PairUpdates(Caller) # {}

\* C15: a replaceCollection whose target record ids are the empty list
\* calls its handler once, with no error and no result, and stage 2 is the
\* only call it makes.
C15_NoTargetsIsANoop ==
  \A p \in Procs :
    (IsReplaceCollection(p) /\ BodyHasRun(p)
       /\ query[p].targetRecordIds = IdList({}) /\ MetaIsValid(query[p].meta)) =>
      /\ StageTwoThrew(p, "E_NOOP")
      /\ handled[p] = Done(NoError, NoResult, NoFlag)
      /\ calls[p] = stageTwoCall

\* A replaceCollection of no targets with associated ids has been run.
C15_Witness ==
  /\ IsReplaceCollection(Caller)
  /\ query[Caller].targetRecordIds = IdList({})
  /\ query[Caller].associatedIds = IdList(ChildIds)
  /\ Len(handled[Caller]) = 1

\* C16: a many-to-many replaceCollection with targets and with no
\* associated ids issues one destroy, of the join rows of its targets, and
\* no createEach; when the destroy has called back without error the
\* handler has been called with no error and no target has a join row.
C16_EmptyAssociatedIdsClears ==
  \A p \in Procs :
    (IsReplaceCollection(p) /\ orm # "via" /\ StageTwoPassed(p)
       /\ query[p].associatedIds = IdList({})) =>
      /\ TargetIds(p) # {}
      /\ Ops(p, "createEach") = {}
      /\ Ops(p, "destroy") = {2}
      /\ calls[p][2].whereAttr = ParentColumn
      /\ calls[p][2].whereIds = TargetIds(p)
      /\ BackOk(p, 2) =>
           /\ handled[p] = Done(NoError, NoResult, NoFlag)
           /\ RowsOf(joinTable, TargetIds(p)) = {}

\* The targets had join rows, and the destroy has removed them.
C16_Witness ==
  /\ IsReplaceCollection(Caller) /\ orm = "junction"
  /\ query[Caller].associatedIds = IdList({})
  /\ BackOk(Caller, 2)
  /\ RowsOf(snapshot[Caller].joinTable, TargetIds(Caller)) # {}
  /\ ~repeat[Caller]

\* C17: whenever replaceCollection calls its handler without an error, on
\* the many-to-many path, on the one-to-many path or after E_NOOP, it
\* calls it with no result, whatever its child operations called back with.
C17_SuccessHasNoResult ==
  \A p \in Procs :
    (IsReplaceCollection(p) /\ handled[p] # <<>> /\ handled[p][1].err = NoError) =>
      handled[p] = Done(NoError, NoResult, NoFlag)

\* The caller asked for `fetch`, the updates have called back with the
\* records they updated, and the handler has been called with no error.
C17_Witness ==
  /\ IsReplaceCollection(Caller) /\ Succeeded(Caller)
  /\ \E i \in NullOuts(Caller) :
       \E r \in returned[Caller] : r.idx = i /\ r.result.rows # {}
  /\ \E i \in PairUpdates(Caller) :
       \E r \in returned[Caller] : r.idx = i /\ r.result.rows # {}

\* A count on a model whose adapter has no `count` method.
CountsWithoutCount(p) ==
  /\ query[p].method = "count"
  /\ "count" \notin Collections(orm)[query[p].using].adapter

\* The handler has been called once, with an error whose message names
\* the model and the method and with no result.
HandledCapabilityError(p) ==
  /\ Len(handled[p]) = 1
  /\ handled[p][1].err.type = "capability"
  /\ handled[p][1].err.message = query[p].using \o "." \o "count"
  /\ handled[p][1].result = NoResult

\* C18 as claimed: a count on a model whose adapter has no `count` method,
\* once its body has run, has called its handler with an error that names
\* the model and the method, and has invoked no adapter method.
C18_NoCountMethodIsAnError ==
  \A p \in Procs :
    (CountsWithoutCount(p) /\ BodyHasRun(p)) =>
      /\ HandledCapabilityError(p)
      /\ Ops(p, "adapter.count") = {}

\* C18 as amended: a count on a model whose adapter has no `count` method
\* invokes no adapter method; once stage 2 and stage 3 have passed it has
\* called its handler with an error that names the model and the method;
\* when stage 2 signals E_NOOP the handler gets (no error, 0), and when
\* stage 2 or stage 3 throws another error the handler gets that error.
C18_NoCountMethodAfterForging ==
  \A p \in Procs :
    (CountsWithoutCount(p) /\ BodyHasRun(p)) =>
      /\ Ops(p, "adapter.count") = {}
      /\ (BackOk(p, 1) /\ BackOk(p, 2)) => HandledCapabilityError(p)
      /\ StageTwoThrew(p, "E_NOOP") => handled[p] = Done(NoError, Count(0), NoFlag)
      /\ (BackErr(p, 1) /\ ~StageTwoThrew(p, "E_NOOP")) =>
           /\ Len(handled[p]) = 1
           /\ handled[p][1].err.type = "stage2"
      /\ BackErr(p, 2) =>
           /\ Len(handled[p]) = 1
           /\ handled[p][1].err.type = "stage3"

\* A count on such a model has passed both stages.
C18_Witness ==
  /\ CountsWithoutCount(Caller)
  /\ BackOk(Caller, 1) /\ BackOk(Caller, 2)
  /\ Len(handled[Caller]) = 1

\* C19: in count, while the adapter's count is in flight the handler has
\* not been called; once it has called back with an error, the handler has
\* been called once, with that error wrapped by forgeAdapterError with the
\* omen of the call and with no result; once it has called back without
\* error, the handler has been called once, with no error and the number
\* the adapter passed.
C19_AdapterOutcomeReachesHandler ==
  \A p \in Procs :
    query[p].method = "count" =>
      \A i \in Ops(p, "adapter.count") :
        /\ i \in InFlight(p) => handled[p] = <<>>
        /\ \A r \in returned[p] :
             r.idx = i =>
               /\ Len(handled[p]) = 1
               /\ handled[p][1].extra = NoFlag
               /\ IF r.err
                    THEN /\ handled[p][1].err.type = "adapter"
                         /\ handled[p][1].err.name = "AdapterError"
                         /\ handled[p][1].err.message = "omen"
                         /\ handled[p][1].err.origin = i
                         /\ handled[p][1].result = NoResult
                    ELSE /\ handled[p][1].err = NoError
                         /\ r.result.tag = "number"
                         /\ handled[p][1].result = r.result

\* The adapter's count has called back with an error.
C19_Witness ==
  /\ query[Caller].method = "count"
  /\ \E i \in Ops(Caller, "adapter.count") : BackErr(Caller, i)
  /\ Len(handled[Caller]) = 1

\* The codes of the stage-2 failures that are usage errors.
UsageCodes ==
  {"E_INVALID_CRITERIA", "E_INVALID_POPULATES", "E_INVALID_NEW_RECORDS",
   "E_INVALID_TARGET_RECORD_IDS", "E_INVALID_ASSOCIATED_IDS",
   "E_INVALID_COLLECTION_ATTR_NAME", "E_INVALID_META"}

\* C20: once stage 2 has thrown a usage error, the handler has been called
\* once, with an error whose `code` is the code of the stage-2 error and
\* which carries its details (as a property or quoted in its message).
C20_UsageErrorsCarryCodeAndDetails ==
  \A p \in Procs :
    \A r \in returned[p] :
      (r.idx = 1 /\ r.err /\ r.code \in UsageCodes) =>
        /\ Len(handled[p]) = 1
        /\ handled[p][1].err.code = r.code
        /\ handled[p][1].err.details # "none"

\* The stage-2 codes that name an argument of replaceCollection, and the
\* argument the usage error for each speaks of.
ArgumentCodes ==
  {"E_INVALID_TARGET_RECORD_IDS", "E_INVALID_COLLECTION_ATTR_NAME", "E_INVALID_ASSOCIATED_IDS"}
OffendingArgument ==
  [code \in ArgumentCodes |->
     CASE code = "E_INVALID_TARGET_RECORD_IDS" -> "target record ids"
       [] code = "E_INVALID_COLLECTION_ATTR_NAME" -> "collection attr name"
       [] code = "E_INVALID_ASSOCIATED_IDS" -> "associated ids"]

\* C21: in replaceCollection, stage 2 has thrown the code of malformed
\* target record ids, of an unrecognized collection attr name or of
\* malformed associated ids exactly when the handler has been called (once)
\* with the usage error that speaks of that argument; the three errors
\* differ from one another, so the error tells which argument offended;
\* and in each of the three cases no child operation has been issued.
C21_UsageErrorNamesTheArgument ==
  /\ \A c1, c2 \in ArgumentCodes : c1 # c2 => OffendingArgument[c1] # OffendingArgument[c2]
  /\ \A p \in Procs :
       IsReplaceCollection(p) /\ BodyHasRun(p) =>
         \A code \in ArgumentCodes :
           /\ StageTwoThrew(p, code)
                <=> handled[p] = Done(UsageError(OffendingArgument[code]), NoResult, NoFlag)
           /\ StageTwoThrew(p, code) => ChildOps(p) = {}

\* The collection attr name is not an association of the model: the
\* handler has the usage error about it and nothing was issued.
C21_Witness ==
  /\ IsReplaceCollection(Caller)
  /\ StageTwoThrew(Caller, "E_INVALID_COLLECTION_ATTR_NAME")
  /\ callArgs[Caller][2] = String("petz")
  /\ handled[Caller] = Done(UsageError("collection attr name"), NoResult, NoFlag)
  /\ Len(calls[Caller]) = 1

\* C22: within a count or a find the stages run in order.  A helpFind
\* (find) is the second call, made after stage 2 returned without error;
\* processAllRecords comes after a helpFind that has called back without
\* error.  In count, stage 3 is the second call, made after stage 2
\* returned without error, and the adapter's count is the third, made
\* after stage 3 returned without error; once stage 3 has thrown, the
\* handler has been called once with that error and the adapter's count is
\* not among the calls.
C22_StagesRunInOrder ==
  \A p \in Procs :
    /\ \A i \in Ops(p, "helpFind") :
         i = 2 /\ calls[p][1].op = "forgeStageTwoQuery" /\ BackOk(p, 1)
    /\ \A j \in Ops(p, "processAllRecords") :
         j = 3 /\ 2 \in Ops(p, "helpFind") /\ BackOk(p, 2)
    /\ \A j \in Ops(p, "forgeStageThreeQuery") :
         /\ j = 2 /\ calls[p][1].op = "forgeStageTwoQuery" /\ BackOk(p, 1)
         /\ BackErr(p, j) =>
              /\ Ops(p, "adapter.count") = {}
              /\ Len(handled[p]) = 1
              /\ handled[p][1].err.type = "stage3" /\ handled[p][1].err.origin = j
              /\ handled[p][1].result = NoResult
    /\ \A i \in Ops(p, "adapter.count") :
         i = 3 /\ 2 \in Ops(p, "forgeStageThreeQuery") /\ BackOk(p, 2) /\ BackOk(p, 1)
    /\ query[p].method \in {"find", "count"} /\ BodyHasRun(p) =>
         /\ Ops(p, "forgeStageTwoQuery") = {1}
         /\ \A i \in 1..Len(calls[p]) :
              calls[p][i].op \in {"forgeStageTwoQuery", "forgeStageThreeQuery",
                                  "helpFind", "processAllRecords", "adapter.count"}

\* A count whose stage 3 threw: the handler has the error, and the calls
\* are the two forgings and nothing else.
C22_Witness ==
  /\ query[Caller].method = "count"
  /\ Len(calls[Caller]) = 2
  /\ BackOk(Caller, 1) /\ BackErr(Caller, 2)
  /\ Len(handled[Caller]) = 1 /\ handled[Caller][1].err.type = "stage3"

\* C23: in find, once helpFind has called back without error, the handler
\* has been called once: if one of the rows it called back with does not
\* have the shape of the model, with the error processAllRecords threw and
\* no records; otherwise with no error and all the rows.  A success never
\* reports fewer rows than helpFind called back with.
C23_RejectedRowFailsTheFind ==
  \A p \in Procs :
    query[p].method = "find" =>
      \A r \in returned[p] :
        r.idx \in Ops(p, "helpFind") /\ ~r.err =>
          /\ Len(handled[p]) = 1
          /\ IF \E row \in r.result.rows : row.stale
               THEN /\ BackErr(p, r.idx + 1)
                    /\ handled[p][1] =
                         Handled(Error("shape", "", "Error", "", "none", r.idx + 1),
                                 NoResult, NoFlag)
               ELSE handled[p][1] = Handled(NoError, r.result, NoFlag)

\* helpFind called back with a row of the model's shape and one that is
\* not: the handler has the error and no records.
C23_Witness ==
  /\ query[Caller].method = "find"
  /\ \E r \in returned[Caller] :
       /\ r.idx \in Ops(Caller, "helpFind") /\ ~r.err
       /\ \E good, bad \in r.result.rows : ~good.stale /\ bad.stale
  /\ Len(handled[Caller]) = 1
  /\ handled[Caller][1].err.type = "shape"
  /\ handled[Caller][1].result = NoResult

IsLowerCase(str) == ToLowerCase(str) = str

\* C24: a replaceCollection that has passed stage 2 and finds `query.using`,
\* the `collection` or the `referenceIdentity` of the association, or the
\* identity of the child model not in lower case has called the handler
\* once, with an assertion error and no result, and has issued no destroy,
\* no createEach and no update (stage 2 is its only call).
C24_UnnormalizedIdentityStops ==
  \A p \in Procs :
    /\ IsReplaceCollection(p) /\ StageTwoPassed(p)
    /\ \/ ~IsLowerCase(query[p].using)
       \/ ~IsLowerCase(AssociationEntry(p).collection)
       \/ ~IsLowerCase(AssociationEntry(p).referenceIdentity)
       \/ ~IsLowerCase(Collections(orm)[AssociationEntry(p).collection].identity)
    => /\ Len(handled[p]) = 1
       /\ handled[p][1].err.name = "AssertionError"
       /\ handled[p][1].result = NoResult
       /\ ChildOps(p) = {}
       /\ Len(calls[p]) = 1

\* A replaceCollection with valid arguments on the model registered as
\* "User": the handler has the assertion error.
C24_Witness ==
  /\ IsReplaceCollection(Caller) /\ StageTwoPassed(Caller)
  /\ query[Caller].using = "User"
  /\ TargetIds(Caller) # {} /\ AssociatedIds(Caller) # {}
  /\ Len(handled[Caller]) = 1 /\ handled[Caller][1].err.name = "AssertionError"
  /\ ChildOps(Caller) = {}

\* The per-pair updates of an operation that link `associatedId` to
\* `targetId`.
UpdatesOfPair(p, targetId, associatedId) ==
  {i \in PairUpdates(p) :
     calls[p][i].whereIds = {associatedId} /\ calls[p][i].values = (Via :> targetId)}

\* C25: within one operation no step is invoked a second time, whether or
\* not a call has failed: at most one adapter.count, one helpFind, one
\* findOne, one create, one destroy, one createEach and one null-out
\* update; an operation that issues a destroy issues no update and one
\* that issues an update issues no destroy and no createEach; and the
\* per-pair updates, once issued, are exactly one for each pair of a
\* target id and an associated id.
C25_NoStepIsRetried ==
  \A p \in Procs :
    /\ \A op \in {"adapter.count", "helpFind", "findOne", "create", "destroy", "createEach",
                  "forgeStageTwoQuery", "forgeStageThreeQuery", "processAllRecords"} :
         Cardinality(Ops(p, op)) <= 1
    /\ Cardinality(NullOuts(p)) <= 1
    /\ Ops(p, "destroy") = {} \/ Ops(p, "update") = {}
    /\ Ops(p, "createEach") = {} \/ Ops(p, "update") = {}
    /\ PairUpdates(p) # {} =>
         /\ \A t \in TargetIds(p), a \in AssociatedIds(p) :
              Cardinality(UpdatesOfPair(p, t, a)) = 1
         /\ Cardinality(PairUpdates(p)) = Cardinality(TargetIds(p)) * Cardinality(AssociatedIds(p))

\* A findOrCreate whose create has called back with an error: one findOne
\* and one create were issued, and the handler has the error.
C25_Witness ==
  /\ query[Caller].method = "findOrCreate"
  /\ \E i \in Ops(Caller, "create") : BackErr(Caller, i)
  /\ Cardinality(Ops(Caller, "findOne")) = 1 /\ Cardinality(Ops(Caller, "create")) = 1
  /\ Len(handled[Caller]) = 1 /\ handled[Caller][1].err # NoError

LinkedTo(p, c) ==
  {calls[p][i].values[Via] : i \in {j \in PairUpdates(p) : BackOk(p, j) /\ calls[p][j].whereIds = {c}}}

\* C27: in a one-to-many replaceCollection the store holds what the updates
\* that succeeded wrote, whatever became of the others.  A child that a
\* per-pair update has linked is linked to a parent of such an update; a
\* child that none has linked has no parent if the null-out took it from a
\* target, and the parent it had otherwise.  Nothing is issued to undo an
\* update: the updates are one null-out at most and per-pair updates of
\* target ids and associated ids.  Once a per-pair update has failed, the
\* handler has been called once, with an error.
C27_FailedUpdateUndoesNothing ==
  \A p \in Procs :
    IsReplaceCollection(p) /\ StageTwoPassed(p) /\ orm = "via" =>
      /\ Cardinality(NullOuts(p)) <= 1
      /\ \A i \in PairUpdates(p) :
           /\ calls[p][i].values[Via] \in TargetIds(p)
           /\ \E a \in AssociatedIds(p) : calls[p][i].whereIds = {a}
      /\ Cardinality(PairUpdates(p)) <= Cardinality(TargetIds(p)) * Cardinality(AssociatedIds(p))
      /\ \A c \in ChildIds :
           petTable[c][Via] \in
             IF LinkedTo(p, c) # {} THEN LinkedTo(p, c)
             ELSE IF /\ \E i \in NullOuts(p) : BackOk(p, i)
                     /\ snapshot[p].petTable[c][Via] \in TargetIds(p)
               THEN {Null}
             ELSE {snapshot[p].petTable[c][Via]}
      /\ (\E i \in PairUpdates(p) : BackErr(p, i)) =>
           Len(handled[p]) = 1 /\ handled[p][1].err # NoError

\* The mixed state: every update has called back, one per-pair update
\* succeeded and its pair is linked, another failed and its pair is not
\* linked, and the handler has the error.
C27_Witness ==
  /\ IsReplaceCollection(Caller) /\ orm = "via" /\ InFlight(Caller) = {}
  /\ \E i, j \in PairUpdates(Caller) :
       /\ BackOk(Caller, i) /\ BackErr(Caller, j)
       /\ \A c \in calls[Caller][i].whereIds : petTable[c][Via] = calls[Caller][i].values[Via]
       /\ \A c \in calls[Caller][j].whereIds : petTable[c][Via] # calls[Caller][j].values[Via]
  /\ \E i \in NullOuts(Caller) : BackOk(Caller, i)
  /\ Len(handled[Caller]) = 1 /\ handled[Caller][1].err # NoError

\* C28: in a many-to-many replaceCollection, once the createEach has called
\* back with an error (the destroy before it having succeeded), the handler
\* has been called once, with the error of the createEach and no result;
\* the calls are stage 2, the destroy and the createEach and no other; the
\* join table holds no row of a target, and the rows of the other parents
\* as they were when the operation began.
C28_FailedCreateEachRestoresNothing ==
  \A p \in Procs :
    IsReplaceCollection(p) /\ orm \in {"junction", "through"} =>
      \A i \in Ops(p, "createEach") :
        BackErr(p, i) =>
          /\ handled[p] = Done(CallError(i), NoResult, NoFlag)
          /\ Len(calls[p]) = 3
          /\ calls[p][2].op = "destroy" /\ BackOk(p, 2) /\ i = 3
          /\ RowsOf(joinTable, TargetIds(p)) = {}
          /\ RowsOf(joinTable, ParentIds \ TargetIds(p))
               = RowsOf(snapshot[p].joinTable, ParentIds \ TargetIds(p))

\* The targets had join rows, the destroy deleted them, the createEach
\* failed: the handler has the error and the rows are gone.
C28_Witness ==
  /\ IsReplaceCollection(Caller) /\ orm \in {"junction", "through"}
  /\ \E i \in Ops(Caller, "createEach") :
       BackErr(Caller, i) /\ handled[Caller] = Done(CallError(i), NoResult, NoFlag)
  /\ RowsOf(snapshot[Caller].joinTable, TargetIds(Caller)) # {}
  /\ RowsOf(joinTable, TargetIds(Caller)) = {}

\* The new record the caller of findOrCreate supplied, and the primary key
\* of its model.
SuppliedRecord(p) == Arg(callArgs[p], 1).attrs
PrimaryKey(p) == Collections(orm)[query[p].using].primaryKey

\* C29: in findOrCreate, while findOne is awaited after stage 2 passed, the
\* new record has a primary key: the one supplied, or null.  Every create
\* is invoked with a record that has no primary key if that key was null,
\* and is otherwise the record supplied, its key unchanged; the new record
\* of the query is then that record.
C29_NullPrimaryKeyIsRemoved ==
  \A p \in Procs :
    query[p].method = "findOrCreate" =>
      /\ pc[p] = "findOne" /\ StageTwoPassed(p) =>
           /\ Has(query[p].newRecord.attrs, PrimaryKey(p))
           /\ query[p].newRecord.attrs[PrimaryKey(p)] =
                IF Has(SuppliedRecord(p), PrimaryKey(p))
                  THEN SuppliedRecord(p)[PrimaryKey(p)] ELSE Null
      /\ \A c \in Ops(p, "create") :
           /\ calls[p][c].values = query[p].newRecord.attrs
           /\ IF Has(SuppliedRecord(p), PrimaryKey(p)) /\ SuppliedRecord(p)[PrimaryKey(p)] # Null
                THEN calls[p][c].values = SuppliedRecord(p)
                ELSE /\ ~Has(calls[p][c].values, PrimaryKey(p))
                     /\ calls[p][c].values =
                          [a \in DOMAIN SuppliedRecord(p) \ {PrimaryKey(p)} |-> SuppliedRecord(p)[a]]

\* The caller supplied no primary key, stage 2 passed (and set the key to
\* null), findOne found nothing: create is invoked without the key.
C29_Witness ==
  /\ query[Caller].method = "findOrCreate" /\ StageTwoPassed(Caller)
  /\ ~Has(SuppliedRecord(Caller), PrimaryKey(Caller))
  /\ \E f \in Ops(Caller, "findOne") : BackOk(Caller, f)
  /\ \E c \in Ops(Caller, "create") : ~Has(calls[Caller][c].values, PrimaryKey(Caller))

\* What call `i` called back with.
ResultOf(p, i) == (CHOOSE r \in returned[p] : r.idx = i).result

\* The findOne calls of a findOrCreate that called back without error and
\* without a record.
FoundNone(p) ==
  {f \in Ops(p, "findOne") : BackOk(p, f) /\ ResultOf(p, f) = NoResult}

C31_HandlerAsThirdArgument ==
  \A p \in Procs :
    IsReplaceCollection(p) /\ IsFunction(Arg(callArgs[p], 2)) =>
      /\ IsFunction(cb[p])
      /\ BodyHasRun(p)
      /\ IsUndefined(query[p].associatedIds)
      /\ query[p].meta = Arg(callArgs[p], 3)

\* C32: a findOrCreate for whose criteria stage 2 threw E_NOOP goes on.
\* Its criteria is the canonical no-op; its second call is a findOne with
\* that criteria, and the handler is not called before the findOne is
\* back; the findOne, when it calls back without error, has found nothing,
\* and the third call is a create with the new record the caller supplied;
\* when the create has succeeded the handler has been called once, with no
\* error, the created record and the flag `true`.
C32_NoopCriteriaStillCreates ==
  \A p \in Procs :
    query[p].method = "findOrCreate" /\ StageTwoThrew(p, "E_NOOP") =>
      /\ query[p].criteria = STD_NOOP_CRITERIA
      /\ Ops(p, "findOne") = {2}
      /\ calls[p][2].whereAttr = STD_NOOP_CRITERIA.where
      /\ 2 \in InFlight(p) => handled[p] = <<>>
      /\ BackOk(p, 2) =>
           /\ ResultOf(p, 2) = NoResult
           /\ Ops(p, "create") = {3}
           /\ calls[p][3].values = SuppliedRecord(p)
           /\ 3 \in InFlight(p) => handled[p] = <<>>
           /\ BackOk(p, 3) => handled[p] = Done(NoError, ResultOf(p, 3), "true")

\* Stage 2 threw E_NOOP, findOne found nothing, the create succeeded: the
\* handler has the created record and `true`.
C32_Witness ==
  /\ query[Caller].method = "findOrCreate" /\ StageTwoThrew(Caller, "E_NOOP")
  /\ BackOk(Caller, 2) /\ BackOk(Caller, 3)
  /\ calls[Caller][3].op = "create"
  /\ Len(handled[Caller]) = 1
  /\ handled[Caller][1].err = NoError /\ handled[Caller][1].result.tag = "record"
  /\ handled[Caller][1].extra = "true"

\* Callers `p` and `q` are two, each with a findOrCreate whose body began
\* on a store without a parent record, both with the same criteria, one
\* that records can match.
SameSearch(p, q) ==
  /\ p # q
  /\ query[p].method = "findOrCreate" /\ query[q].method = "findOrCreate"
  /\ BodyHasRun(p) /\ BodyHasRun(q)
  /\ snapshot[p].userTable = {} /\ snapshot[q].userTable = {}
  /\ query[p].criteria = query[q].criteria
  /\ query[p].criteria.where = "valid"

ReportsCreated(p) == Len(handled[p]) = 1 /\ handled[p][1].extra = "true"

\* C33 (as claimed): of two findOrCreate operations with the same criteria
\* on a store with no matching record, at most one has invoked create and
\* at most one has reported wasCreated = true.
C33_AtMostOneCreates ==
  \A p, q \in Procs :
    SameSearch(p, q) =>
      /\ Ops(p, "create") = {} \/ Ops(q, "create") = {}
      /\ ~(ReportsCreated(p) /\ ReportsCreated(q))

\* C33 (amended): every findOrCreate invokes create at most once, and only
\* after its own findOne has called back without error and without a
\* record; one whose findOne called back with a record invokes no create.
\* Nothing keeps two operations from both doing so: when the creates of
\* two have both succeeded, two records are in the store, one for each.
C33_EachCreatesAfterItsOwnFindOne ==
  \A p \in Procs :
    query[p].method = "findOrCreate" =>
      /\ Cardinality(Ops(p, "create")) <= 1
      /\ \A c \in Ops(p, "create") : \E f \in FoundNone(p) : f < c
      /\ (\E f \in Ops(p, "findOne") : BackOk(p, f) /\ ResultOf(p, f) # NoResult) =>
           Ops(p, "create") = {}
      /\ \A q \in Procs \ {p} :
           \A c \in Ops(p, "create"), d \in Ops(q, "create") :
             query[q].method = "findOrCreate" /\ BackOk(p, c) /\ BackOk(q, d) =>
               /\ ResultOf(p, c) # ResultOf(q, d)
               /\ {ResultOf(p, c).n, ResultOf(q, d).n} \subseteq userTable

\* Two operations with the same criteria, begun on a store with no record:
\* both have created a record and both have reported wasCreated = true.
C33_Witness ==
  \E p, q \in Procs :
    /\ SameSearch(p, q)
    /\ \E c \in Ops(p, "create") : BackOk(p, c)
    /\ \E d \in Ops(q, "create") : BackOk(q, d)
    /\ ReportsCreated(p) /\ ReportsCreated(q)
    /\ Cardinality(userTable) = 2

\* The one-to-many replaceCollection of `p` has succeeded: the null-out and
\* every per-pair update have called back without error, none is in
\* flight, and the handler has been called once, without error.
OneToManySucceeded(p) ==
  /\ IsReplaceCollection(p) /\ StageTwoPassed(p) /\ orm = "via"
  /\ TargetIds(p) # {}
  /\ InFlight(p) = {}
  /\ \A i \in Ops(p, "update") : BackOk(p, i)
  /\ Len(handled[p]) = 1 /\ handled[p][1].err = NoError

\* The children whose `via` attribute is parent `t`.
ChildrenOf(table, t) == {c \in ChildIds : table[c][Via] = t}

\* C34: after a successful one-to-many replaceCollection, in whatever order
\* its per-pair updates completed, the children whose `via` is a target id
\* are exactly associatedIds, for every target id, one or several.
C34_EveryTargetEndsWithAssociatedIds ==
  \A p \in Procs :
    OneToManySucceeded(p) =>
      \A t \in TargetIds(p) : ChildrenOf(petTable, t) = AssociatedIds(p)

\* The join rows, in the table now or when the operation of `p` began,
\* whose parent is not a target id of `p`.
RowsOfOthers(p) ==
  RowsOf(joinTable, ParentIds \ TargetIds(p))
    \cup RowsOf(snapshot[p].joinTable, ParentIds \ TargetIds(p))

\* C35: in a many-to-many replaceCollection, whatever the outcome of its
\* destroy and its createEach, every join row of a parent that is not a
\* target id is in the join table as many times as it was when the
\* operation began; the operation calls the join model only, and the
\* records of the parent model and of the associated model are as they
\* were.
C35_OnlyRowsOfTargetsChange ==
  \A p \in Procs :
    IsReplaceCollection(p) /\ StageTwoPassed(p) /\ orm \in {"junction", "through"} =>
      /\ \A r \in RowsOfOthers(p) :
           CopiesIn(r, joinTable) = CopiesIn(r, snapshot[p].joinTable)
      /\ \A i \in ChildOps(p) : IsJoinModel(Collections(orm)[calls[p][i].model])
      /\ \A i \in 2..Len(calls[p]) : i \in Ops(p, "destroy") \cup Ops(p, "createEach")
      /\ petTable = snapshot[p].petTable
      /\ userTable = snapshot[p].userTable

\* A parent that is a target and a parent that is not both had join rows;
\* the destroy and the createEach succeeded; the rows of the target have
\* changed and those of the other parent are there.
C35_Witness ==
  /\ IsReplaceCollection(Caller) /\ StageTwoPassed(Caller) /\ orm \in {"junction", "through"}
  /\ \E i \in Ops(Caller, "destroy") : BackOk(Caller, i)
  /\ \E i \in Ops(Caller, "createEach") : BackOk(Caller, i)
  /\ RowsOf(snapshot[Caller].joinTable, ParentIds \ TargetIds(Caller)) # {}
  /\ RowsOf(joinTable, ParentIds \ TargetIds(Caller)) # {}
  /\ RowsOf(snapshot[Caller].joinTable, TargetIds(Caller)) # {}
  /\ userTable # {}

\* C36: in a one-to-many replaceCollection, whatever the outcome of its
\* updates, a child whose `via` was no target id when the operation began
\* and whose primary key is no associated id is as it was; every child has
\* the attributes it had, with the values it had but for `via`; the
\* operation calls update on the child model only, with `via` as the one
\* attribute to set, and the join table and the parent records are as
\* they were.
C36_OnlyViaOfChildrenChanges ==
  \A p \in Procs :
    IsReplaceCollection(p) /\ StageTwoPassed(p) /\ orm = "via" =>
      /\ \A c \in ChildIds :
           /\ snapshot[p].petTable[c][Via] \notin TargetIds(p) /\ c \notin AssociatedIds(p) =>
                petTable[c] = snapshot[p].petTable[c]
           /\ DOMAIN petTable[c] = DOMAIN snapshot[p].petTable[c]
           /\ \A a \in DOMAIN petTable[c] \ {Via} : petTable[c][a] = snapshot[p].petTable[c][a]
      /\ \A i \in 2..Len(calls[p]) :
           /\ calls[p][i].op = "update"
           /\ calls[p][i].model = AssociatedModel(p).identity
           /\ DOMAIN calls[p][i].values = {Via}
      /\ joinTable = snapshot[p].joinTable
      /\ userTable = snapshot[p].userTable

\* A child of a parent that is no target, itself no associated id, is as
\* it was after the null-out has succeeded and the handler has been called.
C36_Witness ==
  /\ IsReplaceCollection(Caller) /\ StageTwoPassed(Caller) /\ orm = "via"
  /\ TargetIds(Caller) # {}
  /\ \E i \in NullOuts(Caller) : BackOk(Caller, i)
  /\ Len(handled[Caller]) = 1
  /\ \E c \in ChildIds :
       /\ snapshot[Caller].petTable[c][Via] \in ParentIds \ TargetIds(Caller)
       /\ c \notin AssociatedIds(Caller)
       /\ petTable[c] = snapshot[Caller].petTable[c]

PropertiesOf(meta) == IF meta.tag = "dictionary" THEN meta.dict ELSE NoDict

\* C38: in findOrCreate the meta of the query stays the meta the caller
\* passed; findOne is called with that meta, and with a criteria that has
\* no `limit`, `skip` or `sort`; create is called with a dictionary that
\* has `fetch: true` and, but for `fetch`, the properties of the caller's
\* meta and no other.
C38_CallersMetaIsNotModified ==
  \A p \in Procs :
    query[p].method = "findOrCreate" /\ BodyHasRun(p) =>
      /\ query[p].meta = Arg(callArgs[p], 3)
      /\ \A i \in Ops(p, "findOne") :
           /\ calls[p][i].meta = Arg(callArgs[p], 3)
           /\ calls[p][i].whereAttr = query[p].criteria.where
           /\ query[p].criteria.clauses \cap {"limit", "skip", "sort"} = {}
      /\ \A i \in Ops(p, "create") :
           LET theirs == PropertiesOf(Arg(callArgs[p], 3))
               passed == calls[p][i].meta
           IN /\ passed.tag = "dictionary"
              /\ DOMAIN passed.dict = DOMAIN theirs \cup {"fetch"}
              /\ passed.dict["fetch"] = TRUE
              /\ \A k \in DOMAIN theirs \ {"fetch"} : passed.dict[k] = theirs[k]

\* The caller passed `fetch: false`; findOne found nothing and create has
\* been called with `fetch: true` and has succeeded; the meta of the query
\* still says `fetch: false`.
C38_Witness ==
  /\ query[Caller].method = "findOrCreate"
  /\ Arg(callArgs[Caller], 3) = Dictionary("fetch" :> FALSE)
  /\ FoundNone(Caller) # {}
  /\ \E i \in Ops(Caller, "create") :
       BackOk(Caller, i) /\ calls[Caller][i].meta.dict["fetch"] = TRUE
  /\ query[Caller].meta.dict["fetch"] = FALSE
=============================================================================
